---- MODULE Spec2Model ----
(***************************************************************************)
(* Signal computation layer of the stock-market technical analysis         *)
(* backend: pivot detection and Dow Theory trend (core/dow_theory.py),     *)
(* multi-timeframe opportunity, batch scans, relative-strength ranking and *)
(* period returns (core/sector_scanner.py, services/scanner.py) and RSI    *)
(* (core/technical_indicators.py).                                         *)
(*                                                                         *)
(* Each component is a pure computation over its inputs.  Every component  *)
(* has its own specification: its initial states draw the inputs from      *)
(* bounded sets, its actions apply the code to them and store the result.  *)
(* Python's 0-based positions are kept in the data (a pivot's 'index');    *)
(* At(s, i) reads position i of a sequence.                                *)
(***************************************************************************)
EXTENDS Integers, Sequences, FiniteSets, TLC

VARIABLES
    pc,           \* which step of which component comes next
    df,           \* candle sequence handed to the pivot engine
    left, right,  \* pivot window arguments (0 stands for None/0: both falsy)
    pivot_highs,  \* result of find_pivot_highs / input of label_pivots
    pivot_lows,   \* result of find_pivot_lows / input of label_pivots
    labeled,      \* result of label_pivots / input of determine_trend
    trend_data,   \* result of determine_trend
    tf_trend,     \* analyze_stock: the trend analyze_timeframe gives per timeframe
    mtf_groups,   \* analyze_stock: result['mtf_groups']
    opportunity,  \* analyze_stock: result['opportunity']
    scan,         \* batch scan: which of the three scan functions is called
    feed,         \* batch scan: what the supplier gives for each instrument
    benchmark_ok, \* batch scan: the benchmark's returns are available
    scan_i,       \* batch scan: loop position (0-based)
    results,      \* batch scan: the list being built / returned
    raised,       \* batch scan: an exception left the call
    progress,     \* batch scan: the fractions handed to progress_callback
    rank_fn,      \* ranking: which ranking function is called
    rank_in,      \* ranking: the analysed instruments handed in
    ranked,       \* ranking: the ranked list returned
    calc_class,   \* calculate_returns: the class whose method is called
    dates,        \* calculate_returns: the candles' dates (day ordinals)
    lookback,     \* calculate_returns: the lookback argument N
    reference,    \* calculate_returns: per key of the returned dict, the
                  \*   position of the candle whose close is the reference
    close,        \* calculate_rsi_tradingview: df['Close']
    period,       \* calculate_rsi_tradingview: the period argument
    rsi,          \* calculate_rsi_tradingview: the returned series
    rsi_value,    \* classify_rsi: the argument
    rsi_class,    \* classify_rsi: the returned dict
    macd_data,    \* classify_macd: the argument
    macd_class,   \* classify_macd: the returned dict
    an_args,      \* get_macd_analysis / analyze_timeframe: the arguments
    an_feed,      \* the candles at hand: per timeframe what fetch_data (and
                  \*   the aggregation) gave, or the df argument
    an_result,    \* what the function returned
    rs_fn,        \* relative strength: the code that computes it
    rs_returns,   \* relative strength: the instrument's returns
    rs_benchmark, \* relative strength: the benchmark's returns
    relative,     \* relative strength: the dict built
    rv_fn,        \* return values: the function called
    rv_close,     \* return values: df['Close']
    rv_dates,     \* return values: df['Date'] (daily candles)
    rv_lookback,  \* return values: the lookback argument N
    rv_returns,   \* return values: the returned dict
    st_fn,        \* categorisation: the function called
    st_results,   \* categorisation: the analysed instruments
    st_timeframe, \* categorisation: the timeframe argument
    st_out,       \* categorisation: the three lists, or the status
    agg_class,    \* aggregate_to_4h: the class whose method is called
    agg_given,    \* aggregate_to_4h: the hourly candles handed in
    agg_df,       \* aggregate_to_4h: the same DataFrame object after the call
    agg_out,      \* aggregate_to_4h: the DataFrame returned
    mk_timeframe, \* the timeframe asked of fetch_index_data
    mk_series,    \* the closes the supplier holds, oldest first
    mk_out,       \* what fetch_index_data returned
    rp_fn,        \* the function called repeatedly
    rp_args,      \* its parameters
    rp_given,     \* the candle sequence as first handed in
    rp_df,        \* the candle sequence object, as the calls leave it
    rp_results,   \* the results of the calls so far
    mr_n,         \* the number of candles handed to calculate_macd
    mr_periods,   \* fast, slow and signal period
    mr_trace,     \* the positions written and read
    sf_feed,      \* what the supplier returns for each timeframe
    sf_result,    \* what analyze_stock returned
    ns_now,       \* the clock, in seconds
    ns_cache,     \* _cache: <<>> without "allIndices", else <<listing>>
    ns_cache_time,\* _cache_time
    ns_session_initialized,\* _session_initialized
    ns_last       \* the last call of get_all_indices

pivotVars == <<df, left, right, pivot_highs, pivot_lows>>
trendVars == <<labeled, trend_data>>
stockVars == <<tf_trend, mtf_groups, opportunity>>
signalVars == <<pivotVars, trendVars, stockVars>>
batchVars == <<scan, feed, benchmark_ok, scan_i, results, raised, progress>>
rankVars == <<rank_fn, rank_in, ranked>>
returnVars == <<calc_class, dates, lookback, reference>>
rsiVars == <<close, period, rsi>>
zoneVars == <<rsi_value, rsi_class>>
macdVars == <<macd_data, macd_class>>
analysisVars == <<an_args, an_feed, an_result>>
relativeVars == <<rs_fn, rs_returns, rs_benchmark, relative>>
valueVars == <<rv_fn, rv_close, rv_dates, rv_lookback, rv_returns>>
statusVars == <<st_fn, st_results, st_timeframe, st_out>>
aggregateVars == <<agg_class, agg_given, agg_df, agg_out>>
marketVars == <<mk_timeframe, mk_series, mk_out>>
repeatVars == <<rp_fn, rp_args, rp_given, rp_df, rp_results>>
readsVars == <<mr_n, mr_periods, mr_trace>>
stockfeedVars == <<sf_feed, sf_result>>
nseVars == <<ns_now, ns_cache, ns_cache_time, ns_session_initialized, ns_last>>
vars == <<pc, signalVars, batchVars, rankVars, returnVars, rsiVars, zoneVars,
          macdVars, analysisVars, relativeVars, valueVars, statusVars,
          aggregateVars, marketVars, repeatVars, readsVars, stockfeedVars,
          nseVars>>

\* ------------------------------------------------------------------ bounds

MaxLen == 5      \* longest candle sequence
MaxPrice == 2    \* raw prices are 1..MaxPrice, in thirds of 0.01
MaxWin == 2      \* largest pivot window argument
MaxPivots == 3   \* longest pivot list handed to label_pivots / determine_trend

\* ----------------------------------------------------------------- helpers

None == "None"

At(s, i) == s[i + 1]

Range(a, b) == [k \in 1..(IF b > a THEN b - a ELSE 0) |-> a + k - 1]

SeqsUpTo(S, n) == UNION {[1..k -> S] : k \in 0..n}

\* round(x, 2).  Raw prices are counted in thirds of 0.01, the rounded price
\* in units of 0.01: 3q and 3q+1 round to q, 3q+2 rounds to q+1 (no ties).
Round2(x) == (x + 1) \div 3

\* ------------------------------------------------- components at rest

\* Each specification runs one component; the variables of the others rest.
TrendIdle == labeled = None /\ trend_data = None

StockIdle == tf_trend = None /\ mtf_groups = None /\ opportunity = None

PivotIdle == df = <<>> /\ left = 0 /\ right = 0

PivotTrendIdle ==
    PivotIdle /\ pivot_highs = <<>> /\ pivot_lows = <<>> /\ TrendIdle

BatchIdle ==
    /\ scan = None /\ feed = <<>> /\ benchmark_ok = FALSE /\ scan_i = 0
    /\ results = <<>> /\ raised = FALSE /\ progress = <<>>

RankIdle == rank_fn = None /\ rank_in = <<>> /\ ranked = <<>>

ReturnIdle ==
    calc_class = None /\ dates = <<>> /\ lookback = 0 /\ reference = <<>>

RsiIdle == close = <<>> /\ period = 0 /\ rsi = <<>>

ZoneIdle == rsi_value = None /\ rsi_class = None

MacdIdle == macd_data = None /\ macd_class = None

AnalysisIdle == an_args = None /\ an_feed = None /\ an_result = None

RelativeIdle ==
    rs_fn = None /\ rs_returns = <<>> /\ rs_benchmark = <<>> /\ relative = <<>>

ValueIdle ==
    /\ rv_fn = None /\ rv_close = <<>> /\ rv_dates = <<>> /\ rv_lookback = 0
    /\ rv_returns = <<>>

StatusIdle ==
    st_fn = None /\ st_results = <<>> /\ st_timeframe = None /\ st_out = None

AggregateIdle ==
    agg_class = None /\ agg_given = <<>> /\ agg_df = <<>> /\ agg_out = <<>>

MarketIdle ==
    mk_timeframe = None /\ mk_series = <<>> /\ mk_out = <<>>

RepeatIdle ==
    rp_fn = None /\ rp_args = None /\ rp_given = <<>> /\ rp_df = <<>> /\ rp_results = <<>>

ReadsIdle ==
    mr_n = 0 /\ mr_periods = None /\ mr_trace = None

StockFeedIdle ==
    sf_feed = None /\ sf_result = None

NseIdle ==
    ns_now = 0 /\ ns_cache = <<>> /\ ns_cache_time = 0 /\ ns_session_initialized = FALSE /\ ns_last = None

IdleExcept(family) ==
    /\ IF family = "signal" THEN TRUE ELSE PivotTrendIdle /\ StockIdle
    /\ IF family = "batch" THEN TRUE ELSE BatchIdle
    /\ IF family = "rank" THEN TRUE ELSE RankIdle
    /\ IF family = "returns" THEN TRUE ELSE ReturnIdle
    /\ IF family = "rsi" THEN TRUE ELSE RsiIdle
    /\ IF family = "zone" THEN TRUE ELSE ZoneIdle
    /\ IF family = "macd" THEN TRUE ELSE MacdIdle
    /\ IF family = "analysis" THEN TRUE ELSE AnalysisIdle
    /\ IF family = "relative" THEN TRUE ELSE RelativeIdle
    /\ IF family = "value" THEN TRUE ELSE ValueIdle
    /\ IF family = "status" THEN TRUE ELSE StatusIdle
    /\ IF family = "aggregate" THEN TRUE ELSE AggregateIdle
    /\ IF family = "market" THEN TRUE ELSE MarketIdle
    /\ IF family = "repeat" THEN TRUE ELSE RepeatIdle
    /\ IF family = "reads" THEN TRUE ELSE ReadsIdle
    /\ IF family = "stockfeed" THEN TRUE ELSE StockFeedIdle
    /\ IF family = "nse" THEN TRUE ELSE NseIdle

Frame(family) ==
    /\ IF family = "signal" THEN TRUE ELSE UNCHANGED signalVars
    /\ IF family = "batch" THEN TRUE ELSE UNCHANGED batchVars
    /\ IF family = "rank" THEN TRUE ELSE UNCHANGED rankVars
    /\ IF family = "returns" THEN TRUE ELSE UNCHANGED returnVars
    /\ IF family = "rsi" THEN TRUE ELSE UNCHANGED rsiVars
    /\ IF family = "zone" THEN TRUE ELSE UNCHANGED zoneVars
    /\ IF family = "macd" THEN TRUE ELSE UNCHANGED macdVars
    /\ IF family = "analysis" THEN TRUE ELSE UNCHANGED analysisVars
    /\ IF family = "relative" THEN TRUE ELSE UNCHANGED relativeVars
    /\ IF family = "value" THEN TRUE ELSE UNCHANGED valueVars
    /\ IF family = "status" THEN TRUE ELSE UNCHANGED statusVars
    /\ IF family = "aggregate" THEN TRUE ELSE UNCHANGED aggregateVars
    /\ IF family = "market" THEN TRUE ELSE UNCHANGED marketVars
    /\ IF family = "repeat" THEN TRUE ELSE UNCHANGED repeatVars
    /\ IF family = "reads" THEN TRUE ELSE UNCHANGED readsVars
    /\ IF family = "stockfeed" THEN TRUE ELSE UNCHANGED stockfeedVars
    /\ IF family = "nse" THEN TRUE ELSE UNCHANGED nseVars

\* ------------------------------------------------------- pivot detection

pivot_left == 5
pivot_right == 5

\* left = left or self.pivot_left
OrDefault(v, d) == IF v = 0 THEN d ELSE v

\* IsPivotHigh with > for >=: an equal high no longer disqualifies.
IsPivotHigh_ties(highs, i, l, r) ==
    /\ \A j \in 1..l : ~(At(highs, i - j) > At(highs, i))
    /\ \A j \in 1..r : ~(At(highs, i + j) > At(highs, i))

IsPivotHigh(highs, i, l, r) ==
    /\ \A j \in 1..l : ~(At(highs, i - j) >= At(highs, i))
    /\ \A j \in 1..r : ~(At(highs, i + j) >= At(highs, i))

IsPivotLow(lows, i, l, r) ==
    /\ \A j \in 1..l : ~(At(lows, i - j) <= At(lows, i))
    /\ \A j \in 1..r : ~(At(lows, i + j) <= At(lows, i))

PivotRecords(vals, sel) ==
    [k \in 1..Len(sel) |-> [index |-> sel[k], price |-> Round2(At(vals, sel[k]))]]

find_pivot_highs(d, lft, rgt) ==
    LET l == OrDefault(lft, pivot_left)
        r == OrDefault(rgt, pivot_right)
        highs == [k \in 1..Len(d) |-> d[k].High]
        sel == SelectSeq(Range(l, Len(highs) - r),
                         LAMBDA i : IsPivotHigh(highs, i, l, r))
    IN  PivotRecords(highs, sel)

\* find_pivot_lows without the right-hand confirmation: every bar from `left`
\* on is a candidate and only the bars before it are compared.
find_pivot_lows_unconfirmed(d, lft, rgt) ==
    LET l == OrDefault(lft, pivot_left)
        lows == [k \in 1..Len(d) |-> d[k].Low]
        sel == SelectSeq(Range(l, Len(lows)),
                         LAMBDA i : IsPivotLow(lows, i, l, 0))
    IN  PivotRecords(lows, sel)

find_pivot_lows(d, lft, rgt) ==
    LET l == OrDefault(lft, pivot_left)
        r == OrDefault(rgt, pivot_right)
        lows == [k \in 1..Len(d) |-> d[k].Low]
        sel == SelectSeq(Range(l, Len(lows) - r),
                         LAMBDA i : IsPivotLow(lows, i, l, r))
    IN  PivotRecords(lows, sel)

Candles == {c \in [High : 1..MaxPrice, Low : 1..MaxPrice] : c.Low <= c.High}

InitPivot ==
    /\ pc = "find_pivots"
    /\ IdleExcept("signal")
    /\ df \in SeqsUpTo(Candles, MaxLen)
    /\ left \in 0..MaxWin
    /\ right \in 0..MaxWin
    /\ pivot_highs = None
    /\ pivot_lows = None
    /\ TrendIdle
    /\ StockIdle

FindPivots ==
    /\ pc = "find_pivots"
    /\ pivot_highs' = find_pivot_highs(df, left, right)
    /\ pivot_lows' = find_pivot_lows(df, left, right)
    /\ pc' = "pivots_found"
    /\ UNCHANGED <<df, left, right, trendVars, stockVars>>
    /\ Frame("signal")

NextPivot == FindPivots

SpecPivot == InitPivot /\ [][NextPivot]_vars

Indices(p) == {p[k].index : k \in DOMAIN p}

StrictPivotHigh(i) ==
    /\ left <= i
    /\ i < Len(df) - right
    /\ \A m \in (i - left)..(i - 1) : df[m + 1].High < df[i + 1].High
    /\ \A m \in (i + 1)..(i + right) : df[m + 1].High < df[i + 1].High

StrictPivotLow(i) ==
    /\ left <= i
    /\ i < Len(df) - right
    /\ \A m \in (i - left)..(i - 1) : df[m + 1].Low > df[i + 1].Low
    /\ \A m \in (i + 1)..(i + right) : df[m + 1].Low > df[i + 1].Low

\* C1: with left >= 1 and right >= 1, find_pivot_highs reports position i if
\* and only if left <= i < L - right and High[i] is strictly greater than each
\* of the `left` highs before it and each of the `right` highs after it (an
\* equal high on either side disqualifies i); find_pivot_lows is the mirror
\* image with strictly-less on Low.
C1_PivotIffStrictExtremum ==
    (pc = "pivots_found" /\ left >= 1 /\ right >= 1) =>
        /\ Indices(pivot_highs) = {i \in 0..(Len(df) - 1) : StrictPivotHigh(i)}
        /\ Indices(pivot_lows) = {i \in 0..(Len(df) - 1) : StrictPivotLow(i)}

\* A run with a reported pivot high, a reported pivot low, and a bar that tops
\* its left neighbour but only ties its right neighbour and is not reported.
C1_Witness ==
    /\ pc = "pivots_found"
    /\ left = 1
    /\ right = 1
    /\ pivot_highs # <<>>
    /\ pivot_lows # <<>>
    /\ \E i \in 1..(Len(df) - 2) :
        /\ df[i].High < df[i + 1].High
        /\ df[i + 2].High = df[i + 1].High
        /\ i \notin Indices(pivot_highs)

\* C5: for right >= 1 neither find_pivot_highs nor find_pivot_lows reports a
\* pivot at a position >= L - right (the last `right` bars are never pivots)
\* nor at a position < left.
C5_NoPivotInLookahead ==
    (pc = "pivots_found" /\ right >= 1) =>
        \A i \in Indices(pivot_highs) \cup Indices(pivot_lows) :
            i < Len(df) - right /\ i >= left

\* The last bar's low undercuts each of the `left` lows before it, so only the
\* missing bars to its right keep it from being a pivot; an earlier pivot low
\* is reported.
C5_Witness ==
    /\ pc = "pivots_found"
    /\ right >= 1
    /\ left >= 1
    /\ Len(df) > left
    /\ \A m \in (Len(df) - left)..(Len(df) - 1) : df[m].Low > df[Len(df)].Low
    /\ pivot_lows # <<>>
    /\ (Len(df) - 1) \notin Indices(pivot_lows)

\* -------------------------------------------------------- pivot labelling

\* LabelHigh with >= for >: a high equal to its predecessor is called higher.
LabelHigh_ge(ph, i) ==
    IF i = 0 THEN [label |-> "H", type |-> "initial"]
    ELSE IF At(ph, i).price >= At(ph, i - 1).price
         THEN [label |-> "HH", type |-> "higher_high"]
         ELSE [label |-> "LH", type |-> "lower_high"]

\* LabelHigh with a label of its own for a high equal to its predecessor.
LabelHigh_equal(ph, i) ==
    IF i = 0 THEN [label |-> "H", type |-> "initial"]
    ELSE IF At(ph, i).price > At(ph, i - 1).price
         THEN [label |-> "HH", type |-> "higher_high"]
         ELSE IF At(ph, i).price = At(ph, i - 1).price
         THEN [label |-> "EH", type |-> "equal_high"]
         ELSE [label |-> "LH", type |-> "lower_high"]

LabelHigh(ph, i) ==
    IF i = 0 THEN [label |-> "H", type |-> "initial"]
    ELSE IF At(ph, i).price > At(ph, i - 1).price
         THEN [label |-> "HH", type |-> "higher_high"]
         ELSE [label |-> "LH", type |-> "lower_high"]

LabelLow(pl, i) ==
    IF i = 0 THEN [label |-> "L", type |-> "initial"]
    ELSE IF At(pl, i).price > At(pl, i - 1).price
         THEN [label |-> "HL", type |-> "higher_low"]
         ELSE [label |-> "LL", type |-> "lower_low"]

\* {**ph, 'label': ..., 'type': ...}
Labelled(p, lt) ==
    [index |-> p.index, price |-> p.price, label |-> lt.label, type |-> lt.type]

label_pivots(ph, pl) ==
    [highs |-> [k \in 1..Len(ph) |-> Labelled(ph[k], LabelHigh(ph, k - 1))],
     lows  |-> [k \in 1..Len(pl) |-> Labelled(pl[k], LabelLow(pl, k - 1))]]

\* -------------------------------------------------------------- the trend
\* The code's arrow in the two transition labels is written -> here.

Last(s) == s[Len(s)]

TrendResult(trend, name, color, confidence, lh, ll) ==
    [trend |-> trend, trend_name |-> name, color |-> color,
     confidence |-> confidence,
     last_high_label |-> lh.label, last_low_label |-> ll.label,
     last_high_price |-> lh.price, last_low_price |-> ll.price]

\* determine_trend that also counts the labels of the last three pivots (the
\* counts the code computes and never uses): an uptrend needs no LH among them.
determine_trend_counts(lp) ==
    LET highs == lp.highs
        lows == lp.lows
        recent == {highs[k].label : k \in {j \in DOMAIN highs : j > Len(highs) - 3}}
    IN  IF Len(highs) < 2 \/ Len(lows) < 2
        THEN [trend |-> "Insufficient Data", color |-> "gray", confidence |-> 0,
              last_high_label |-> IF highs # <<>> THEN Last(highs).label ELSE "-",
              last_low_label |-> IF lows # <<>> THEN Last(lows).label ELSE "-"]
        ELSE LET last_high == Last(highs)
                 last_low == Last(lows)
                 hl == last_high.label
                 ll == last_low.label
             IN  IF hl = "HH" /\ ll = "HL" /\ "LH" \notin recent
                 THEN TrendResult("HH-HL", "Uptrend", "green", 90, last_high, last_low)
                 ELSE IF hl = "LH" /\ ll = "LL"
                 THEN TrendResult("LL-LH", "Downtrend", "red", 90, last_high, last_low)
                 ELSE IF hl = "HH" /\ ll = "LL"
                 THEN TrendResult("LL->HL", "Transition Up", "lightgreen", 70,
                                  last_high, last_low)
                 ELSE IF hl = "LH" /\ ll = "HL"
                 THEN TrendResult("HH->LH", "Transition Down", "orange", 70,
                                  last_high, last_low)
                 ELSE TrendResult("Sideways", "Sideways", "yellow", 60,
                                  last_high, last_low)

determine_trend(lp) ==
    LET highs == lp.highs
        lows == lp.lows
    IN  IF Len(highs) < 2 \/ Len(lows) < 2
        THEN [trend |-> "Insufficient Data", color |-> "gray", confidence |-> 0,
              last_high_label |-> IF highs # <<>> THEN Last(highs).label ELSE "-",
              last_low_label |-> IF lows # <<>> THEN Last(lows).label ELSE "-"]
        ELSE LET last_high == Last(highs)
                 last_low == Last(lows)
                 hl == last_high.label
                 ll == last_low.label
             IN  IF hl = "HH" /\ ll = "HL"
                 THEN TrendResult("HH-HL", "Uptrend", "green", 90, last_high, last_low)
                 ELSE IF hl = "LH" /\ ll = "LL"
                 THEN TrendResult("LL-LH", "Downtrend", "red", 90, last_high, last_low)
                 ELSE IF hl = "HH" /\ ll = "LL"
                 THEN TrendResult("LL->HL", "Transition Up", "lightgreen", 70,
                                  last_high, last_low)
                 ELSE IF hl = "LH" /\ ll = "HL"
                 THEN TrendResult("HH->LH", "Transition Down", "orange", 70,
                                  last_high, last_low)
                 ELSE TrendResult("Sideways", "Sideways", "yellow", 60,
                                  last_high, last_low)

\* Pivot lists as find_pivot_highs / find_pivot_lows produce them: increasing
\* positions, prices already rounded.
PivotLists ==
    UNION {{[k \in 1..n |-> [index |-> 2 * k, price |-> f[k]]] :
               f \in [1..n -> 0..MaxPrice]} : n \in 0..MaxPivots}

InitLabel ==
    /\ pc = "label_pivots"
    /\ IdleExcept("signal")
    /\ PivotIdle
    /\ pivot_highs \in PivotLists
    /\ pivot_lows \in PivotLists
    /\ TrendIdle
    /\ StockIdle

LabelPivots ==
    /\ pc = "label_pivots"
    /\ labeled' = label_pivots(pivot_highs, pivot_lows)
    /\ pc' = "determine_trend"
    /\ UNCHANGED <<pivotVars, trend_data, stockVars>>
    /\ Frame("signal")

DetermineTrend ==
    /\ pc = "determine_trend"
    /\ trend_data' = determine_trend(labeled)
    /\ pc' = "trend_done"
    /\ UNCHANGED <<pivotVars, labeled, stockVars>>
    /\ Frame("signal")

NextLabel == LabelPivots \/ DetermineTrend

SpecLabel == InitLabel /\ [][NextLabel]_vars

\* determine_trend on any labelled pivot lists, also ones label_pivots never
\* builds (an 'H' or 'L' in last place of a list of two or more).
HighLabels == {"H", "HH", "LH"}
LowLabels == {"L", "HL", "LL"}

LabelledLists(L) ==
    UNION {{[k \in 1..n |-> [index |-> 2 * k, price |-> k, label |-> f[k],
                              type |-> "given"]] :
               f \in [1..n -> L]} : n \in 0..MaxPivots}

InitTrend ==
    /\ pc = "determine_trend"
    /\ IdleExcept("signal")
    /\ PivotIdle
    /\ pivot_highs = <<>>
    /\ pivot_lows = <<>>
    /\ labeled \in [highs : LabelledLists(HighLabels), lows : LabelledLists(LowLabels)]
    /\ trend_data = None
    /\ StockIdle

NextTrend == DetermineTrend

SpecTrend == InitTrend /\ [][NextTrend]_vars

\* label and type of the k-th of `out`, given the rounded prices in `inp`
LabelIs(out, inp, k, first, higher, lower) ==
    IF k = 1 THEN out[k].label = first.label /\ out[k].type = first.type
    ELSE IF inp[k].price > inp[k - 1].price
         THEN out[k].label = higher.label /\ out[k].type = higher.type
         ELSE out[k].label = lower.label /\ out[k].type = lower.type

SamePivots(out, inp) ==
    /\ Len(out) = Len(inp)
    /\ \A k \in DOMAIN inp :
        out[k].index = inp[k].index /\ out[k].price = inp[k].price

\* C6: label_pivots labels the first pivot high 'H' and the first pivot low 'L'
\* (type initial); every later pivot is 'HH' / 'HL' exactly when its price is
\* strictly greater than the price of the pivot of the same kind right before
\* it, and 'LH' / 'LL' otherwise (so also on an equal price); the labels of
\* the highs are a function of the highs alone and those of the lows of the
\* lows alone, and both output lists keep the input's order and length.
C6_LabelsFollowPredecessor ==
    (pc \in {"determine_trend", "trend_done"}) =>
        /\ SamePivots(labeled.highs, pivot_highs)
        /\ SamePivots(labeled.lows, pivot_lows)
        /\ \A k \in DOMAIN pivot_highs :
            LabelIs(labeled.highs, pivot_highs, k,
                    [label |-> "H", type |-> "initial"],
                    [label |-> "HH", type |-> "higher_high"],
                    [label |-> "LH", type |-> "lower_high"])
        /\ \A k \in DOMAIN pivot_lows :
            LabelIs(labeled.lows, pivot_lows, k,
                    [label |-> "L", type |-> "initial"],
                    [label |-> "HL", type |-> "higher_low"],
                    [label |-> "LL", type |-> "lower_low"])

\* Three highs and three lows labelled; a high equal to the one before it is
\* 'LH', a low equal to the one before it is 'LL', and a higher one of each
\* kind is there too.
C6_Witness ==
    /\ pc = "determine_trend"
    /\ Len(labeled.highs) = 3
    /\ Len(labeled.lows) = 3
    /\ \E k \in 2..3 : /\ pivot_highs[k].price = pivot_highs[k - 1].price
                       /\ labeled.highs[k].label = "LH"
    /\ \E k \in 2..3 : /\ pivot_lows[k].price = pivot_lows[k - 1].price
                       /\ labeled.lows[k].label = "LL"
    /\ \E k \in 2..3 : labeled.highs[k].label = "HH"
    /\ \E k \in 2..3 : labeled.lows[k].label = "HL"

\* <<last high label, last low label, trend, trend name, confidence>>
TrendTable ==
    {<<"HH", "HL", "HH-HL", "Uptrend", 90>>,
     <<"LH", "LL", "LL-LH", "Downtrend", 90>>,
     <<"HH", "LL", "LL->HL", "Transition Up", 70>>,
     <<"LH", "HL", "HH->LH", "Transition Down", 70>>}

\* C2: determine_trend depends only on the labels of the last pivot high and
\* the last pivot low: with fewer than 2 highs or fewer than 2 lows it gives
\* 'Insufficient Data' with confidence 0; otherwise (HH, HL) gives Uptrend
\* 'HH-HL' 90, (LH, LL) Downtrend 'LL-LH' 90, (HH, LL) Transition Up 70,
\* (LH, HL) Transition Down 70, and any other pair Sideways 60.
C2_TrendFromLastLabels ==
    pc = "trend_done" =>
        IF Len(labeled.highs) < 2 \/ Len(labeled.lows) < 2
        THEN trend_data.trend = "Insufficient Data" /\ trend_data.confidence = 0
        ELSE LET hl == labeled.highs[Len(labeled.highs)].label
                 ll == labeled.lows[Len(labeled.lows)].label
                 row == {t \in TrendTable : t[1] = hl /\ t[2] = ll}
                 got == <<trend_data.trend, trend_data.trend_name,
                          trend_data.confidence>>
             IN  IF row = {}
                 THEN got = <<"Sideways", "Sideways", 60>>
                 ELSE \A t \in row : got = <<t[3], t[4], t[5]>>

\* An uptrend decided by the last pair alone: the high before the last is a
\* lower high and the low before the last a lower low.
C2_Witness ==
    /\ pc = "trend_done"
    /\ Len(labeled.highs) = 3
    /\ Len(labeled.lows) = 3
    /\ labeled.highs[2].label = "LH"
    /\ labeled.lows[2].label = "LL"
    /\ trend_data.trend = "HH-HL"
    /\ trend_data.confidence = 90

\* ------------------------------------------- multi-timeframe analysis

TIMEFRAMES == {"monthly", "weekly", "daily", "4h", "1h", "15m"}

MTF_GROUPS ==
    [super_tide |-> [name |-> "Super TIDE", timeframes |-> <<"monthly", "weekly">>],
     tide       |-> [name |-> "TIDE", timeframes |-> <<"daily", "4h">>],
     wave       |-> [name |-> "WAVE", timeframes |-> <<"4h", "1h">>],
     ripple     |-> [name |-> "RIPPLE", timeframes |-> <<"1h", "15m">>]]

GroupKeys == DOMAIN MTF_GROUPS

\* What analyze_timeframe can return as 'trend': the four rules of
\* determine_trend that label_pivots' labels can reach, and the two sentinels.
TimeframeTrends ==
    {"HH-HL", "LL-LH", "LL->HL", "HH->LH", "Insufficient Data", "No Data"}

\* sum(1 for t in seq if t in S)
Count(seq, S) == Cardinality({k \in DOMAIN seq : seq[k] \in S})

BullishTrends == {"HH-HL", "LL->HL"}
BearishTrends == {"LL-LH", "HH->LH"}

\* GroupTrend counting only 'HH-HL' as bullish and only 'LL-LH' as bearish.
GroupTrend_strong_only(group_trends) ==
    LET bullish_count == Count(group_trends, {"HH-HL"})
        bearish_count == Count(group_trends, {"LL-LH"})
    IN  IF bullish_count = Len(group_trends) THEN "BULLISH"
        ELSE IF bearish_count = Len(group_trends) THEN "BEARISH"
        ELSE IF bullish_count > bearish_count THEN "BULLISH (Mixed)"
        ELSE IF bearish_count > bullish_count THEN "BEARISH (Mixed)"
        ELSE "NEUTRAL"

\* GroupTrend with a tie counted as bullish.
GroupTrend_tie_bullish(group_trends) ==
    LET bullish_count == Count(group_trends, BullishTrends)
        bearish_count == Count(group_trends, BearishTrends)
    IN  IF bullish_count = Len(group_trends) THEN "BULLISH"
        ELSE IF bearish_count = Len(group_trends) THEN "BEARISH"
        ELSE IF bullish_count >= bearish_count THEN "BULLISH (Mixed)"
        ELSE "BEARISH (Mixed)"

GroupTrend(group_trends) ==
    LET bullish_count == Count(group_trends, BullishTrends)
        bearish_count == Count(group_trends, BearishTrends)
    IN  IF bullish_count = Len(group_trends) THEN "BULLISH"
        ELSE IF bearish_count = Len(group_trends) THEN "BEARISH"
        ELSE IF bullish_count > bearish_count THEN "BULLISH (Mixed)"
        ELSE IF bearish_count > bullish_count THEN "BEARISH (Mixed)"
        ELSE "NEUTRAL"

GroupColor(group_trend) ==
    CASE group_trend = "BULLISH" -> "green"
      [] group_trend = "BEARISH" -> "red"
      [] group_trend = "BULLISH (Mixed)" -> "lightgreen"
      [] group_trend = "BEARISH (Mixed)" -> "orange"
      [] OTHER -> "yellow"

GroupLabels == {"BULLISH", "BEARISH", "BULLISH (Mixed)", "BEARISH (Mixed)", "NEUTRAL"}

GroupEntry(g, group_trend) ==
    [name |-> MTF_GROUPS[g].name, trend |-> group_trend,
     color |-> GroupColor(group_trend), timeframes |-> MTF_GROUPS[g].timeframes]

\* result['mtf_groups'] from result['timeframes']; every timeframe of every
\* group has an entry, so no group is skipped.
AggregateGroups(timeframes) ==
    [g \in GroupKeys |->
        LET tfs == MTF_GROUPS[g].timeframes
            group_trends == [k \in DOMAIN tfs |-> timeframes[tfs[k]]]
        IN  GroupEntry(g, GroupTrend(group_trends))]

\* 'BULLISH' in t and 'BEARISH' in t, on the labels a group can carry and ''
HasBullish(t) == t \in {"BULLISH", "BULLISH (Mixed)"}
HasBearish(t) == t \in {"BEARISH", "BEARISH (Mixed)"}

\* mtf_groups.get(g, {}).get('trend', '')
GroupGet(groups, g) == IF g \in DOMAIN groups THEN groups[g].trend ELSE ""

Opportunity(type, color, strategy) ==
    [type |-> type, color |-> color, strategy |-> strategy]

\* _determine_opportunity with the two intraday rules tested before the
\* pullback and bounce rules.
determine_opportunity_intraday_first(groups) ==
    LET super_tide == GroupGet(groups, "super_tide")
        tide == GroupGet(groups, "tide")
        wave == GroupGet(groups, "wave")
        ripple == GroupGet(groups, "ripple")
        present == {t \in {super_tide, tide, wave, ripple} : t # ""}
    IN  IF \A t \in present : HasBullish(t)
        THEN Opportunity("STRONG BUY", "green", "Positional / Swing")
        ELSE IF \A t \in present : HasBearish(t)
        THEN Opportunity("STRONG SELL / AVOID", "red", "Avoid Long / Short")
        ELSE IF HasBullish(wave) /\ HasBullish(ripple)
        THEN Opportunity("INTRADAY BUY", "cyan", "Intraday")
        ELSE IF HasBearish(wave) /\ HasBearish(ripple)
        THEN Opportunity("INTRADAY SELL", "pink", "Intraday")
        ELSE IF HasBullish(super_tide) /\ HasBearish(tide)
        THEN Opportunity("PULLBACK BUY", "lightgreen", "Positional")
        ELSE IF HasBearish(super_tide) /\ HasBullish(tide)
        THEN Opportunity("BOUNCE SELL", "orange", "Short on bounce")
        ELSE Opportunity("WAIT / NO TRADE", "gray", "Wait")

determine_opportunity(groups) ==
    LET super_tide == GroupGet(groups, "super_tide")
        tide == GroupGet(groups, "tide")
        wave == GroupGet(groups, "wave")
        ripple == GroupGet(groups, "ripple")
        present == {t \in {super_tide, tide, wave, ripple} : t # ""}
    IN  IF \A t \in present : HasBullish(t)
        THEN Opportunity("STRONG BUY", "green", "Positional / Swing")
        ELSE IF \A t \in present : HasBearish(t)
        THEN Opportunity("STRONG SELL / AVOID", "red", "Avoid Long / Short")
        ELSE IF HasBullish(super_tide) /\ HasBearish(tide)
        THEN Opportunity("PULLBACK BUY", "lightgreen", "Positional")
        ELSE IF HasBearish(super_tide) /\ HasBullish(tide)
        THEN Opportunity("BOUNCE SELL", "orange", "Short on bounce")
        ELSE IF HasBullish(wave) /\ HasBullish(ripple)
        THEN Opportunity("INTRADAY BUY", "cyan", "Intraday")
        ELSE IF HasBearish(wave) /\ HasBearish(ripple)
        THEN Opportunity("INTRADAY SELL", "pink", "Intraday")
        ELSE Opportunity("WAIT / NO TRADE", "gray", "Wait")

\* _determine_opportunity on any four group labels
InitOpportunity ==
    /\ pc = "determine_opportunity"
    /\ IdleExcept("signal")
    /\ PivotTrendIdle
    /\ tf_trend = None
    /\ \E f \in [GroupKeys -> GroupLabels] :
        mtf_groups = [g \in GroupKeys |-> GroupEntry(g, f[g])]
    /\ opportunity = None

DetermineOpportunity ==
    /\ pc = "determine_opportunity"
    /\ opportunity' = determine_opportunity(mtf_groups)
    /\ pc' = "opportunity_done"
    /\ UNCHANGED <<pivotVars, trendVars, tf_trend, mtf_groups>>
    /\ Frame("signal")

NextOpportunity == DetermineOpportunity

SpecOpportunity == InitOpportunity /\ [][NextOpportunity]_vars

\* analyze_stock: the supplier's candles decide each timeframe's trend
InitStock ==
    /\ pc = "analyze_stock"
    /\ IdleExcept("signal")
    /\ PivotTrendIdle
    /\ tf_trend \in [TIMEFRAMES -> TimeframeTrends]
    /\ mtf_groups = None
    /\ opportunity = None

AnalyzeStock ==
    /\ pc = "analyze_stock"
    /\ mtf_groups' = AggregateGroups(tf_trend)
    /\ opportunity' = determine_opportunity(mtf_groups')
    /\ pc' = "stock_done"
    /\ UNCHANGED <<pivotVars, trendVars, tf_trend>>
    /\ Frame("signal")

NextStock == AnalyzeStock

SpecStock == InitStock /\ [][NextStock]_vars

OpportunityTypes ==
    {"STRONG BUY", "STRONG SELL / AVOID", "PULLBACK BUY", "BOUNCE SELL",
     "INTRADAY BUY", "INTRADAY SELL", "WAIT / NO TRADE"}

LabelOf(g) == mtf_groups[g].trend

AllFour(P(_)) == \A g \in GroupKeys : P(LabelOf(g))

\* C3: _determine_opportunity takes the first rule that matches, for every
\* assignment of the five labels to the four groups: STRONG BUY if all four
\* contain BULLISH; else STRONG SELL / AVOID if all four contain BEARISH; else
\* PULLBACK BUY if Super-Tide contains BULLISH and Tide BEARISH; else BOUNCE
\* SELL if Super-Tide contains BEARISH and Tide BULLISH; else INTRADAY BUY if
\* Wave and Ripple contain BULLISH; else INTRADAY SELL if both contain BEARISH;
\* else WAIT / NO TRADE.  The result is one of these seven types.
C3_FirstMatchingRule ==
    pc = "opportunity_done" =>
        LET r1 == AllFour(HasBullish)
            r2 == AllFour(HasBearish)
            r3 == HasBullish(LabelOf("super_tide")) /\ HasBearish(LabelOf("tide"))
            r4 == HasBearish(LabelOf("super_tide")) /\ HasBullish(LabelOf("tide"))
            r5 == HasBullish(LabelOf("wave")) /\ HasBullish(LabelOf("ripple"))
            r6 == HasBearish(LabelOf("wave")) /\ HasBearish(LabelOf("ripple"))
            type == opportunity.type
        IN  /\ type \in OpportunityTypes
            /\ r1 => type = "STRONG BUY"
            /\ (~r1 /\ r2) => type = "STRONG SELL / AVOID"
            /\ (~r1 /\ ~r2 /\ r3) => type = "PULLBACK BUY"
            /\ (~r1 /\ ~r2 /\ ~r3 /\ r4) => type = "BOUNCE SELL"
            /\ (~r1 /\ ~r2 /\ ~r3 /\ ~r4 /\ r5) => type = "INTRADAY BUY"
            /\ (~r1 /\ ~r2 /\ ~r3 /\ ~r4 /\ ~r5 /\ r6) => type = "INTRADAY SELL"
            /\ (~r1 /\ ~r2 /\ ~r3 /\ ~r4 /\ ~r5 /\ ~r6) => type = "WAIT / NO TRADE"

\* The pullback rule and the intraday-buy rule both match; the earlier one wins.
C3_Witness ==
    /\ pc = "opportunity_done"
    /\ LabelOf("super_tide") = "BULLISH (Mixed)"
    /\ LabelOf("tide") = "BEARISH"
    /\ LabelOf("wave") = "BULLISH"
    /\ LabelOf("ripple") = "BULLISH (Mixed)"
    /\ opportunity.type = "PULLBACK BUY"

Members(g) == {MTF_GROUPS[g].timeframes[k] : k \in DOMAIN MTF_GROUPS[g].timeframes}

BullishMembers(g) == {tf \in Members(g) : tf_trend[tf] \in {"HH-HL", "LL->HL"}}
BearishMembers(g) == {tf \in Members(g) : tf_trend[tf] \in {"LL-LH", "HH->LH"}}

\* C4: in analyze_stock a group is BULLISH when every member timeframe is
\* Uptrend or Transition Up, BEARISH when every member is Downtrend or
\* Transition Down; otherwise 'BULLISH (Mixed)' when the bullish members
\* outnumber the bearish ones, 'BEARISH (Mixed)' when the bearish outnumber the
\* bullish, and NEUTRAL when they tie (also when there is none of either).
C4_GroupLabelByVote ==
    pc = "stock_done" =>
        \A g \in GroupKeys :
            LET b == Cardinality(BullishMembers(g))
                r == Cardinality(BearishMembers(g))
                n == Cardinality(Members(g))
                label == mtf_groups[g].trend
            IN  /\ (label = "BULLISH") <=> (b = n)
                /\ (label = "BEARISH") <=> (r = n)
                /\ (label = "BULLISH (Mixed)") <=> (b < n /\ b > r)
                /\ (label = "BEARISH (Mixed)") <=> (r < n /\ r > b)
                /\ (label = "NEUTRAL") <=> (b = r)

\* All five labels in one analysis: both transitions make a group BULLISH, one
\* bullish member beside a 'No Data' member makes it 'BULLISH (Mixed)', one
\* bullish beside one bearish member makes it NEUTRAL.
C4_Witness ==
    /\ pc = "stock_done"
    /\ tf_trend["monthly"] = "LL->HL"
    /\ tf_trend["weekly"] = "HH-HL"
    /\ mtf_groups["super_tide"].trend = "BULLISH"
    /\ tf_trend["daily"] = "No Data"
    /\ tf_trend["4h"] = "HH-HL"
    /\ mtf_groups["tide"].trend = "BULLISH (Mixed)"
    /\ tf_trend["1h"] = "LL-LH"
    /\ mtf_groups["wave"].trend = "NEUTRAL"
    /\ tf_trend["15m"] = "Insufficient Data"
    /\ mtf_groups["ripple"].trend = "BEARISH (Mixed)"

\* ------------------------------------------------------------ batch scans

MaxSymbols == 3    \* longest instrument list handed to a batch scan
MaxRS == 1         \* weekly relative strength is -MaxRS..MaxRS percent

\* An optional number: <<>> is None (or a missing key), <<v>> the value v.
Optional(S) == {<<>>} \cup {<<v>> : v \in S}

\* x or d: None and 0 are both falsy
OrElse(x, d) == IF x = <<>> THEN d ELSE IF x[1] = 0 THEN d ELSE x[1]

\* list.sort(key=..., reverse=...) / sorted(...): stable in both directions.
\* keys[k] is the key of seq[k].
SortedBy(seq, keys, reverse) ==
    LET before(j, k) ==
            \/ (IF reverse THEN keys[j] > keys[k] ELSE keys[j] < keys[k])
            \/ (keys[j] = keys[k] /\ j < k)
        pos(k) == 1 + Cardinality({j \in DOMAIN seq : before(j, k)})
    IN  [r \in DOMAIN seq |-> seq[CHOOSE k \in DOMAIN seq : pos(k) = r]]

ScanFunctions == {"analyze_all_sectors", "analyze_sector_stocks", "scan_stocks"}

\* What the supplier and the computation do for one instrument.
\*   "no_data": the fetch fails; every fetcher catches its exceptions and
\*              returns an empty frame (None in DowTheoryAnalyzer.fetch_data)
\*   "raises" : candles arrive, the computation on them raises (a reference
\*              close of 0 in the Daily return, a missing column, ...)
\*   "ok"     : candles arrive and the computation gives the relative strength
Feeds ==
    [status : {"no_data", "raises"}, weekly : {<<>>}]
        \cup [status : {"ok"}, weekly : Optional(-MaxRS..MaxRS)]

\* Instruments are numbered 1..n in list order; 0 is the benchmark.
Entry(name, kind, weekly) == [name |-> name, kind |-> kind, weekly |-> weekly]

InitBatch ==
    /\ pc = "scan_begin"
    /\ IdleExcept("batch")
    /\ scan \in ScanFunctions
    /\ feed \in SeqsUpTo(Feeds, MaxSymbols)
    /\ benchmark_ok \in BOOLEAN
    /\ scan_i = 0
    /\ results = <<>>
    /\ raised = FALSE
    /\ progress = <<>>

\* analyze_all_sectors up to the loop: without benchmark returns it returns
\* the empty list, otherwise the benchmark is the first entry.
AnalyzeAllSectorsBegin ==
    /\ pc = "scan_begin" /\ scan = "analyze_all_sectors"
    /\ IF benchmark_ok
         THEN results' = <<Entry(0, "benchmark", <<0>>)>> /\ pc' = "scan_loop"
         ELSE results' = <<>> /\ pc' = "scan_done"
    /\ UNCHANGED <<scan, feed, benchmark_ok, scan_i, raised, progress>>
    /\ Frame("batch")

\* one pass of the loop over sector_items: no try/except around the body
AnalyzeAllSectorsIter ==
    /\ pc = "scan_loop" /\ scan = "analyze_all_sectors"
    /\ scan_i < Len(feed)
    /\ progress' = Append(progress, <<scan_i + 1, Len(feed)>>)
    /\ LET f == At(feed, scan_i)
       IN  CASE f.status = "no_data" ->
                    /\ scan_i' = scan_i + 1
                    /\ UNCHANGED <<pc, results, raised>>
             [] f.status = "raises" ->
                    /\ raised' = TRUE
                    /\ pc' = "scan_raised"
                    /\ UNCHANGED <<scan_i, results>>
             [] f.status = "ok" ->
                    /\ results' = Append(results, Entry(scan_i + 1, "sector", f.weekly))
                    /\ scan_i' = scan_i + 1
                    /\ UNCHANGED <<pc, raised>>
    /\ UNCHANGED <<scan, feed, benchmark_ok>>
    /\ Frame("batch")

AnalyzeAllSectorsReturn ==
    /\ pc = "scan_loop" /\ scan = "analyze_all_sectors"
    /\ scan_i = Len(feed)
    /\ pc' = "scan_done"
    /\ UNCHANGED batchVars
    /\ Frame("batch")

\* analyze_sector_stocks up to the loop; results is results['stocks']
AnalyzeSectorStocksBegin ==
    /\ pc = "scan_begin" /\ scan = "analyze_sector_stocks"
    /\ pc' = IF benchmark_ok THEN "scan_loop" ELSE "scan_done"
    /\ UNCHANGED batchVars
    /\ Frame("batch")

\* one pass of the loop over stocks: the body is inside try/except-continue
AnalyzeSectorStocksIter ==
    /\ pc = "scan_loop" /\ scan = "analyze_sector_stocks"
    /\ scan_i < Len(feed)
    /\ progress' = Append(progress, <<scan_i + 1, Len(feed)>>)
    /\ LET f == At(feed, scan_i)
       IN  results' = IF f.status = "ok"
                        THEN Append(results, Entry(scan_i + 1, "stock", f.weekly))
                        ELSE results
    /\ scan_i' = scan_i + 1
    /\ UNCHANGED <<pc, scan, feed, benchmark_ok, raised>>
    /\ Frame("batch")

\* after the loop: results['stocks'].sort(key=Weekly or 0, reverse=True)
AnalyzeSectorStocksReturn ==
    /\ pc = "scan_loop" /\ scan = "analyze_sector_stocks"
    /\ scan_i = Len(feed)
    /\ results' = SortedBy(results,
                           [k \in DOMAIN results |-> OrElse(results[k].weekly, 0)],
                           TRUE)
    /\ pc' = "scan_done"
    /\ UNCHANGED <<scan, feed, benchmark_ok, scan_i, raised, progress>>
    /\ Frame("batch")

\* DowTheoryScanner.scan_stocks: no benchmark, no progress callback
ScanStocksBegin ==
    /\ pc = "scan_begin" /\ scan = "scan_stocks"
    /\ pc' = "scan_loop"
    /\ UNCHANGED batchVars
    /\ Frame("batch")

\* one pass of the loop over symbols.  analyze_stock on a failed fetch
\* returns an analysis whose timeframes are all 'No Data'; an exception
\* becomes an entry {'symbol', 'error'}.  Either is appended.
ScanStocksIter ==
    /\ pc = "scan_loop" /\ scan = "scan_stocks"
    /\ scan_i < Len(feed)
    /\ LET f == At(feed, scan_i)
           kind == CASE f.status = "ok" -> "analysis"
                     [] f.status = "no_data" -> "analysis_no_data"
                     [] f.status = "raises" -> "error"
       IN  results' = Append(results, Entry(scan_i + 1, kind, <<>>))
    /\ scan_i' = scan_i + 1
    /\ UNCHANGED <<pc, scan, feed, benchmark_ok, raised, progress>>
    /\ Frame("batch")

ScanStocksReturn ==
    /\ pc = "scan_loop" /\ scan = "scan_stocks"
    /\ scan_i = Len(feed)
    /\ pc' = "scan_done"
    /\ UNCHANGED batchVars
    /\ Frame("batch")

NextBatch ==
    \/ AnalyzeAllSectorsBegin \/ AnalyzeAllSectorsIter \/ AnalyzeAllSectorsReturn
    \/ AnalyzeSectorStocksBegin \/ AnalyzeSectorStocksIter \/ AnalyzeSectorStocksReturn
    \/ ScanStocksBegin \/ ScanStocksIter \/ ScanStocksReturn

SpecBatch == InitBatch /\ [][NextBatch]_vars

\* the instruments of the returned list, the benchmark entry aside
ReturnedInstruments ==
    {results[k].name : k \in {j \in DOMAIN results : results[j].kind # "benchmark"}}

Succeeded == {k \in DOMAIN feed : feed[k].status = "ok"}

BenchmarkAvailable == scan = "scan_stocks" \/ benchmark_ok

\* C7: in analyze_all_sectors, analyze_sector_stocks and scan_stocks, when the
\* fetch or the computation of an instrument fails, the call ends without an
\* exception and the returned list holds exactly the instruments that
\* succeeded, each once.  (Stated with the benchmark available.)
C7_FailedAbsentSucceededPresent ==
    (/\ pc \in {"scan_done", "scan_raised"}
     /\ BenchmarkAvailable
     /\ Succeeded # DOMAIN feed)
        => /\ ~raised
           /\ ReturnedInstruments = Succeeded
           /\ Len(results) =
                Cardinality(Succeeded) + (IF scan = "analyze_all_sectors" THEN 1 ELSE 0)

\* ---------------------------------------------------------------- ranking

RankFunctions ==
    {"get_sector_ranking", "get_stock_ranking",
     "ScannerService.analyze_sectors", "ScannerService.analyze_sector_stocks"}

SectorRankFunctions == {"get_sector_ranking", "ScannerService.analyze_sectors"}

\* [s for s in results if not s['is_benchmark']]
NotBenchmark(list) == SelectSeq(list, LAMBDA e : e.kind # "benchmark")

\* for i, s in enumerate(ranked, 1): s['rank'] = i
WithRanks(list) ==
    [k \in DOMAIN list |->
        [name |-> list[k].name, kind |-> list[k].kind,
         weekly |-> list[k].weekly, rank |-> k]]

\* the sort key of the ranking functions:  relative.get(timeframe) or -999
RankKey(e) == OrElse(e.weekly, -999)

Ranking(list) ==
    WithRanks(SortedBy(list, [k \in DOMAIN list |-> RankKey(list[k])], TRUE))

get_sector_ranking(list) == Ranking(NotBenchmark(list))

get_stock_ranking(list) == Ranking(list)

\* ScannerService.analyze_sectors: result['sectors']
service_analyze_sectors(list) == Ranking(NotBenchmark(list))

\* ScannerService.analyze_sector_stocks: result['stocks']
service_analyze_sector_stocks(list) == Ranking(list)

\* The instruments handed in: what the batch scans return, a sector list
\* with the benchmark in first place.
RankInputs(fn) ==
    {(IF fn \in SectorRankFunctions THEN <<Entry(0, "benchmark", <<0>>)>> ELSE <<>>)
        \o [k \in DOMAIN w |->
              Entry(k, IF fn \in SectorRankFunctions THEN "sector" ELSE "stock", w[k])] :
     w \in SeqsUpTo(Optional(-MaxRS..MaxRS), MaxSymbols)}

InitRank ==
    /\ pc = "rank"
    /\ IdleExcept("rank")
    /\ rank_fn \in RankFunctions
    /\ rank_in \in RankInputs(rank_fn)
    /\ ranked = <<>>

GetSectorRanking ==
    /\ pc = "rank" /\ rank_fn = "get_sector_ranking"
    /\ ranked' = get_sector_ranking(rank_in)
    /\ pc' = "rank_done"
    /\ UNCHANGED <<rank_fn, rank_in>>
    /\ Frame("rank")

GetStockRanking ==
    /\ pc = "rank" /\ rank_fn = "get_stock_ranking"
    /\ ranked' = get_stock_ranking(rank_in)
    /\ pc' = "rank_done"
    /\ UNCHANGED <<rank_fn, rank_in>>
    /\ Frame("rank")

ServiceAnalyzeSectors ==
    /\ pc = "rank" /\ rank_fn = "ScannerService.analyze_sectors"
    /\ ranked' = service_analyze_sectors(rank_in)
    /\ pc' = "rank_done"
    /\ UNCHANGED <<rank_fn, rank_in>>
    /\ Frame("rank")

ServiceAnalyzeSectorStocks ==
    /\ pc = "rank" /\ rank_fn = "ScannerService.analyze_sector_stocks"
    /\ ranked' = service_analyze_sector_stocks(rank_in)
    /\ pc' = "rank_done"
    /\ UNCHANGED <<rank_fn, rank_in>>
    /\ Frame("rank")

NextRank ==
    \/ GetSectorRanking \/ GetStockRanking
    \/ ServiceAnalyzeSectors \/ ServiceAnalyzeSectorStocks

SpecRank == InitRank /\ [][NextRank]_vars

\* C8: the ranking functions return the (non-benchmark) instruments with ranks
\* 1..n in list order, ordered by descending relative strength: every numeric
\* relative strength, 0 and negatives included, is ordered by its value, and
\* only an instrument without one (None) comes after all the others.
C8_RankedByTrueValue ==
    pc = "rank_done" =>
        /\ {[name |-> ranked[k].name, weekly |-> ranked[k].weekly] : k \in DOMAIN ranked}
             = {[name |-> e.name, weekly |-> e.weekly] :
                    e \in {rank_in[k] : k \in {j \in DOMAIN rank_in :
                                                  rank_in[j].kind # "benchmark"}}}
        /\ \A k \in DOMAIN ranked : ranked[k].rank = k
        /\ \A j, k \in DOMAIN ranked :
              j < k =>
                 \/ ranked[k].weekly = <<>>
                 \/ /\ ranked[j].weekly # <<>>
                    /\ ranked[j].weekly[1] >= ranked[k].weekly[1]

\* --------------------------------------------------------- period returns

MaxDates == 4      \* longest candle sequence handed to calculate_returns
MaxSpan == 19      \* calendar days in a window of candle dates
MaxLookback == 2   \* largest lookback argument

\* Dates are proleptic Gregorian day ordinals (date.toordinal()): day 1 is
\* Monday 0001-01-01.
IsLeap(y) == y % 4 = 0 /\ (y % 100 # 0 \/ y % 400 = 0)

DaysBeforeYear(y) ==
    (y - 1) * 365 + (y - 1) \div 4 - (y - 1) \div 100 + (y - 1) \div 400

DaysInMonth(y, m) ==
    IF m = 2 THEN (IF IsLeap(y) THEN 29 ELSE 28)
    ELSE IF m \in {4, 6, 9, 11} THEN 30 ELSE 31

DaysBeforeMonth(y, m) ==
    <<0, 31, 59, 90, 120, 151, 181, 212, 243, 273, 304, 334>>[m]
        + (IF m > 2 /\ IsLeap(y) THEN 1 ELSE 0)

Ordinal(y, m, d) == DaysBeforeYear(y) + DaysBeforeMonth(y, m) + d

\* x.year, x.month, x.day
Year(d) ==
    CHOOSE y \in (d \div 366)..(d \div 365 + 1) :
        DaysBeforeYear(y) < d /\ d <= DaysBeforeYear(y + 1)

Month(d) ==
    LET y == Year(d)
        n == d - DaysBeforeYear(y)
    IN  CHOOSE m \in 1..12 :
            DaysBeforeMonth(y, m) < n /\ n <= DaysBeforeMonth(y, m) + DaysInMonth(y, m)

Day(d) == d - DaysBeforeYear(Year(d)) - DaysBeforeMonth(Year(d), Month(d))

\* x.isoweekday(): Monday 1 .. Sunday 7
IsoWeekday(d) == ((d - 1) % 7) + 1

\* The Monday that starts ISO week 1 of year y: the week holding 4 January.
IsoWeek1Monday(y) ==
    LET firstday == Ordinal(y, 1, 1)
        firstweekday == (firstday + 6) % 7
    IN  firstday - firstweekday + (IF firstweekday > 3 THEN 7 ELSE 0)

\* x.isocalendar()[0]
IsoYear(d) ==
    LET y == Year(d)
    IN  IF d < IsoWeek1Monday(y) THEN y - 1
        ELSE IF d >= IsoWeek1Monday(y + 1) THEN y + 1 ELSE y

\* x.isocalendar()[1]
IsoWeek(d) == (d - IsoWeek1Monday(IsoYear(d))) \div 7 + 1

\* current_date - pd.DateOffset(months=k): the day of the month is clipped
SubMonths(d, k) ==
    LET t == Year(d) * 12 + (Month(d) - 1) - k
        y == t \div 12
        m == (t % 12) + 1
        dd == IF Day(d) > DaysInMonth(y, m) THEN DaysInMonth(y, m) ELSE Day(d)
    IN  Ordinal(y, m, dd)

SetToSeq(S) ==
    [i \in 1..Cardinality(S) |->
        CHOOSE x \in S : Cardinality({y \in S : y < x}) = i - 1]

\* df['year_week'] = df['year'] * 100 + df['week']
YearWeek(d) == Year(d) * 100 + IsoWeek(d)

\* df['year_month'] = df['year'] * 100 + df['month']
YearMonth(d) == Year(d) * 100 + Month(d)

\* Position (0-based) of the last candle of the lookback-th latest period
\* before the current one, periods being compared by their keys;
\* <<>> when fewer than lookback earlier periods exist.
\* keys[k] is the period key of candle k.
PeriodReference(keys, N) ==
    LET current == keys[Len(keys)]
        prev == SetToSeq({keys[k] : k \in DOMAIN keys} \cap {w \in Int : w < current})
    IN  IF Len(prev) >= N
          THEN LET target == prev[Len(prev) - N + 1]
                   rows == {k \in DOMAIN keys : keys[k] = target}
               IN  <<(CHOOSE k \in rows : \A j \in rows : j <= k) - 1>>
          ELSE <<>>

\* Daily: the close lookback rows before the last
DailyReference(ds, N) == IF Len(ds) > N THEN <<Len(ds) - 1 - N>> ELSE <<>>

WeeklyReference(ds, N) == PeriodReference([k \in DOMAIN ds |-> YearWeek(ds[k])], N)

MonthlyReference(ds, N) == PeriodReference([k \in DOMAIN ds |-> YearMonth(ds[k])], N)

\* 3 Month: the last candle dated on or before current - 3*lookback months
QuarterReference(ds, N) ==
    LET target == SubMonths(ds[Len(ds)], 3 * N)
        rows == {k \in DOMAIN ds : ds[k] <= target}
    IN  IF rows # {} THEN <<(CHOOSE k \in rows : \A j \in rows : j <= k) - 1>>
        ELSE <<>>

EmptyDict == [k \in {} |-> <<>>]

\* dict restricted to the keys that were assigned
OnlyFound(dict) == [k \in {x \in DOMAIN dict : dict[x] # <<>>} |-> dict[k]]

\* SectorRelativeStrength.calculate_returns: a period without reference is None
sector_calculate_returns(ds, N) ==
    IF Len(ds) < 2 THEN EmptyDict
    ELSE [p \in {"Daily", "Weekly", "Monthly", "3 Month"} |->
            CASE p = "Daily" -> DailyReference(ds, N)
              [] p = "Weekly" -> WeeklyReference(ds, N)
              [] p = "Monthly" -> MonthlyReference(ds, N)
              [] p = "3 Month" -> QuarterReference(ds, N)]

\* StockRelativeStrength.calculate_returns: a period without reference gets
\* no key; there is no '3 Month'
stock_calculate_returns(ds, N) ==
    IF Len(ds) < 2 THEN EmptyDict
    ELSE OnlyFound([p \in {"Daily", "Weekly", "Monthly"} |->
            CASE p = "Daily" -> DailyReference(ds, N)
              [] p = "Weekly" -> WeeklyReference(ds, N)
              [] p = "Monthly" -> MonthlyReference(ds, N)])

\* Windows of candle dates: two across a year boundary (1 January 2021 lies
\* in ISO week 2020-W53, 30 December 2024 in ISO week 2025-W01), one inside a
\* year.  Candles are daily, Monday to Friday, strictly increasing in date.
WindowStarts == {Ordinal(2020, 12, 21), Ordinal(2024, 12, 16), Ordinal(2024, 5, 20)}

WindowDays(start) == {d \in start..(start + MaxSpan - 1) : IsoWeekday(d) <= 5}

DateSeqs ==
    UNION {{SetToSeq(S) : S \in {T \in SUBSET WindowDays(start) :
                                     Cardinality(T) <= MaxDates}} :
           start \in WindowStarts}

InitReturns ==
    /\ pc = "calculate_returns"
    /\ IdleExcept("returns")
    /\ calc_class \in {"SectorRelativeStrength", "StockRelativeStrength"}
    /\ dates \in DateSeqs
    /\ lookback \in 1..MaxLookback
    /\ reference = <<>>

SectorCalculateReturns ==
    /\ pc = "calculate_returns" /\ calc_class = "SectorRelativeStrength"
    /\ reference' = sector_calculate_returns(dates, lookback)
    /\ pc' = "returns_done"
    /\ UNCHANGED <<calc_class, dates, lookback>>
    /\ Frame("returns")

StockCalculateReturns ==
    /\ pc = "calculate_returns" /\ calc_class = "StockRelativeStrength"
    /\ reference' = stock_calculate_returns(dates, lookback)
    /\ pc' = "returns_done"
    /\ UNCHANGED <<calc_class, dates, lookback>>
    /\ Frame("returns")

NextReturns == SectorCalculateReturns \/ StockCalculateReturns

SpecReturns == InitReturns /\ [][NextReturns]_vars

\* The Monday of a date's week: two dates lie in the same ISO week (same ISO
\* year and ISO week number) exactly when their weeks start on the same day.
WeekStart(d) == d - (IsoWeekday(d) - 1)

\* the weeks, among the candles', strictly before the latest candle's week
EarlierWeeks == {WeekStart(dates[k]) : k \in DOMAIN dates}
                    \cap {w \in Int : w < WeekStart(dates[Len(dates)])}

\* the value of key p in the returned dict, <<>> if None or absent
Get(dict, p) == IF p \in DOMAIN dict THEN dict[p] ELSE <<>>

\* C9: the Weekly reference is the last candle of the N-th latest ISO week
\* (ISO year and week number) strictly before the ISO week of the latest
\* candle, and there is none when fewer than N such weeks have candles; so the
\* reference never lies in the latest candle's own ISO week, also when the
\* candles cross a year boundary.
C9_WeeklyReferenceByIsoWeek ==
    (pc = "returns_done" /\ Len(dates) >= 2) =>
        LET weeks == SetToSeq(EarlierWeeks)
            ref == Get(reference, "Weekly")
        IN  IF Len(weeks) >= lookback
              THEN /\ ref # <<>>
                   /\ WeekStart(At(dates, ref[1])) = weeks[Len(weeks) - lookback + 1]
                   /\ \A k \in DOMAIN dates :
                        WeekStart(dates[k]) = WeekStart(At(dates, ref[1]))
                            => k <= ref[1] + 1
              ELSE ref = <<>>

\* --------------------------------------------------------------------- RSI

MaxBars == 5       \* longest close series handed to calculate_rsi_tradingview
MaxClose == 3      \* closes are 1..MaxClose
MaxPeriod == 3     \* largest RSI period

\* Floating-point values are modelled as exact fractions <<n, d>> in lowest
\* terms with d >= 0; as in IEEE arithmetic a division by zero gives an
\* infinity (<<1, 0>>, <<-1, 0>>) or NaN (<<0, 0>>) instead of raising.
Abs(x) == IF x < 0 THEN -x ELSE x

Sign(x) == IF x < 0 THEN -1 ELSE IF x > 0 THEN 1 ELSE 0

RECURSIVE GCD(_, _)
GCD(a, b) == IF b = 0 THEN a ELSE GCD(b, a % b)

Rat(n, d) ==
    IF d = 0 THEN <<Sign(n), 0>>
    ELSE LET g == GCD(Abs(n), Abs(d))
         IN  <<(Sign(d) * n) \div g, Abs(d) \div g>>

RatAdd(a, b) == Rat(a[1] * b[2] + b[1] * a[2], a[2] * b[2])

RatSub(a, b) == Rat(a[1] * b[2] - b[1] * a[2], a[2] * b[2])

RatMul(a, b) == Rat(a[1] * b[1], a[2] * b[2])

RatDiv(a, b) == Rat(a[1] * b[2] * Sign(b[1]), a[2] * Abs(b[1]))

IsNaN(a) == a = <<0, 0>>

RatLeq(a, b) == ~IsNaN(a) /\ ~IsNaN(b) /\ (a = b \/ a[1] * b[2] < b[1] * a[2])

RatLt(a, b) == RatLeq(a, b) /\ a # b

\* delta[0] = 0, delta[i] = close[i] - close[i-1]
Delta(c, i) == IF i = 0 THEN 0 ELSE At(c, i) - At(c, i - 1)

\* np.where(delta > 0, delta, 0.0)
Gain(c, i) == IF Delta(c, i) > 0 THEN Delta(c, i) ELSE 0

\* np.where(delta < 0, delta, 0.0): the losses kept with their sign
Loss_signed(c, i) == IF Delta(c, i) < 0 THEN Delta(c, i) ELSE 0

\* np.where(delta < 0, -delta, 0.0)
Loss(c, i) == IF Delta(c, i) < 0 THEN -Delta(c, i) ELSE 0

RECURSIVE SumFrom(_, _, _)
SumFrom(v, lo, hi) == IF lo >= hi THEN 0 ELSE At(v, lo) + SumFrom(v, lo + 1, hi)

\* np.mean(v[lo:hi]) on a series of length n
Mean(v, lo, hi) ==
    LET top == IF hi > Len(v) THEN Len(v) ELSE hi
    IN  Rat(SumFrom(v, lo, top), top - lo)

\* avg[i] of the RMA: 0 before position p-1, the mean of v[1:p+1] at p-1,
\* then alpha * v[i] + (1 - alpha) * avg[i-1] for i = p .. n-1
RECURSIVE Rma(_, _, _)
Rma(v, p, i) ==
    IF i < p - 1 THEN <<0, 1>>
    ELSE IF i = p - 1 THEN Mean(v, 1, p + 1)
    ELSE LET alpha == Rat(1, p)
         IN  RatAdd(RatMul(alpha, <<At(v, i), 1>>),
                    RatMul(RatSub(<<1, 1>>, alpha), Rma(v, p, i - 1)))

Gains(c) == [k \in DOMAIN c |-> Gain(c, k - 1)]

Losses(c) == [k \in DOMAIN c |-> Loss(c, k - 1)]

\* 100 - 100 / (1 + rs) without the test for a zero average loss
RsiFrom_unguarded(avg_gain, avg_loss) ==
    RatSub(<<100, 1>>,
           RatDiv(<<100, 1>>, RatAdd(<<1, 1>>, RatDiv(avg_gain, avg_loss))))

\* the RSI of one position from its two averages
RsiFrom(avg_gain, avg_loss) ==
    IF avg_loss = <<0, 1>>
      THEN (IF RatLt(<<0, 1>>, avg_gain) THEN <<100, 1>> ELSE <<50, 1>>)
    ELSE LET rs == RatDiv(avg_gain, avg_loss)
         IN  RatSub(<<100, 1>>, RatDiv(<<100, 1>>, RatAdd(<<1, 1>>, rs)))

\* rsi[i] for i in range(period-1, n); 0 before
RsiAt(c, p, i) ==
    LET gains == [k \in DOMAIN c |-> Gain(c, k - 1)]
        losses == [k \in DOMAIN c |-> Loss(c, k - 1)]
        avg_gain == Rma(gains, p, i)
        avg_loss == Rma(losses, p, i)
    IN  IF i < p - 1 THEN <<0, 1>>
        ELSE RsiFrom(avg_gain, avg_loss)

\* the empty series when there are fewer than period + 1 closes
calculate_rsi_tradingview(c, p) ==
    IF Len(c) < p + 1 THEN <<>>
    ELSE [k \in DOMAIN c |-> RsiAt(c, p, k - 1)]

InitRsi ==
    /\ pc = "calculate_rsi"
    /\ IdleExcept("rsi")
    /\ close \in SeqsUpTo(1..MaxClose, MaxBars)
    /\ period \in 1..MaxPeriod
    /\ rsi = <<>>

CalculateRsi ==
    /\ pc = "calculate_rsi"
    /\ rsi' = calculate_rsi_tradingview(close, period)
    /\ pc' = "rsi_done"
    /\ UNCHANGED <<close, period>>
    /\ Frame("rsi")

NextRsi == CalculateRsi

SpecRsi == InitRsi /\ [][NextRsi]_vars

\* C10: for a series of at least period + 1 positive closes and period >= 1,
\* every value of the returned RSI series lies in [0, 100].
C10_RsiWithinBounds ==
    (pc = "rsi_done" /\ Len(close) >= period + 1) =>
        /\ Len(rsi) = Len(close)
        /\ \A k \in DOMAIN rsi :
              RatLeq(<<0, 1>>, rsi[k]) /\ RatLeq(rsi[k], <<100, 1>>)

\* reached: a series whose last RSI comes out of the rs formula, strictly
\* between 50 and 100, next to one that is a plain 0
C10_Witness ==
    /\ pc = "rsi_done" /\ Len(close) >= period + 1 /\ period >= 2
    /\ RatLt(<<50, 1>>, rsi[Len(rsi)]) /\ RatLt(rsi[Len(rsi)], <<100, 1>>)
    /\ \E k \in DOMAIN rsi : k >= period /\ rsi[k] = <<0, 1>>

\* Wilder's average with every value used once: the mean of v[1..p] stands at
\* position p, each later position i folds in v[i].
RECURSIVE WilderOnce(_, _, _)
WilderOnce(v, p, i) ==
    IF i <= p THEN Mean(v, 1, p + 1)
    ELSE RatAdd(RatMul(Rat(1, p), <<At(v, i), 1>>),
                RatMul(RatSub(<<1, 1>>, Rat(1, p)), WilderOnce(v, p, i - 1)))

\* C11: the averages are seeded with the mean of deltas 1..period and every
\* later delta is folded in exactly once, no delta being used both in the seed
\* and in a recursive step; so the RSI at position i >= period is the one of
\* these averages, and for exactly period + 1 closes the final RSI is the one
\* of the plain means of the period gains and losses.
C11_EachDeltaFoldedOnce ==
    (pc = "rsi_done" /\ Len(close) >= period + 1) =>
        \A i \in period..(Len(close) - 1) :
            At(rsi, i) = RsiFrom(WilderOnce(Gains(close), period, i),
                                 WilderOnce(Losses(close), period, i))

StrictlyIncreasing(c) == \A k \in 1..(Len(c) - 1) : c[k] < c[k + 1]

Constant(c) == \A k \in 1..(Len(c) - 1) : c[k] = c[k + 1]

\* C12: for a strictly increasing close series longer than period the RSI is
\* exactly 100 at every position from period-1 on, the last included; for a
\* constant close series it is exactly 50 there.
C12_MonotoneAndConstantSeries ==
    (pc = "rsi_done" /\ Len(close) > period) =>
        /\ StrictlyIncreasing(close) =>
              \A i \in (period - 1)..(Len(close) - 1) : At(rsi, i) = <<100, 1>>
        /\ Constant(close) =>
              \A i \in (period - 1)..(Len(close) - 1) : At(rsi, i) = <<50, 1>>

\* reached: a rising series of three closes with period 2, final RSI 100
C12_Witness ==
    /\ pc = "rsi_done" /\ period = 2 /\ Len(close) = 3
    /\ StrictlyIncreasing(close)
    /\ rsi[Len(rsi)] = <<100, 1>> /\ rsi[1] = <<0, 1>>

\* ---------------------------------------------------------- classify_rsi

MaxRsi == 100      \* RSI values handed to classify_rsi are 0..MaxRsi

\* The argument is None, NaN or a number.  A number is counted in thirds of
\* 0.01 (raw), so that values strictly between two hundredths exist; the value
\* after round(rsi_value, 2) is counted in units of 0.01.
RsiArguments ==
    [kind : {"none", "nan"}, raw : {0}]
        \cup [kind : {"num"}, raw : 0..(MaxRsi * 300)]

RsiClass(value, zone, color, action) ==
    [value |-> value, zone |-> zone, color |-> color, action |-> action]

\* the chain of tests with  rsi_value >= 60  in second place
classify_rounded_ge60(v) ==
    IF v >= 7800 THEN RsiClass(<<v>>, "Unsustainable Bulls", "red", "Look for Bearish Swing")
    ELSE IF v >= 6000 THEN RsiClass(<<v>>, "Bullish Momentum", "green", "Bullish Bias")
    ELSE IF v >= 5500 THEN RsiClass(<<v>>, "Near 60", "lightgreen", "Watch for Breakout")
    ELSE IF v >= 4500 THEN RsiClass(<<v>>, "Near 50", "gray", "Neutral")
    ELSE IF v >= 4000 THEN RsiClass(<<v>>, "Near 40", "orange", "Watch for Breakdown")
    ELSE IF v <= 2200 THEN RsiClass(<<v>>, "Unsustainable Bears", "green", "Look for Bullish Swing")
    ELSE IF v < 4000 THEN RsiClass(<<v>>, "Bearish Momentum", "red", "Bearish Bias")
    ELSE RsiClass(<<v>>, "Swing Zone (40-60)", "yellow", "Range Trading")

\* the chain of tests on the rounded value v (in units of 0.01)
classify_rounded(v) ==
    IF v >= 7800 THEN RsiClass(<<v>>, "Unsustainable Bulls", "red", "Look for Bearish Swing")
    ELSE IF v > 6000 THEN RsiClass(<<v>>, "Bullish Momentum", "green", "Bullish Bias")
    ELSE IF v >= 5500 THEN RsiClass(<<v>>, "Near 60", "lightgreen", "Watch for Breakout")
    ELSE IF v >= 4500 THEN RsiClass(<<v>>, "Near 50", "gray", "Neutral")
    ELSE IF v >= 4000 THEN RsiClass(<<v>>, "Near 40", "orange", "Watch for Breakdown")
    ELSE IF v <= 2200 THEN RsiClass(<<v>>, "Unsustainable Bears", "green", "Look for Bullish Swing")
    ELSE IF v < 4000 THEN RsiClass(<<v>>, "Bearish Momentum", "red", "Bearish Bias")
    ELSE RsiClass(<<v>>, "Swing Zone (40-60)", "yellow", "Range Trading")

classify_rsi(x) ==
    IF x.kind \in {"none", "nan"}
      THEN RsiClass(<<>>, "Not Clear", "gray", "No Data")
      ELSE classify_rounded(Round2(x.raw))

InitZone ==
    /\ pc = "classify_rsi"
    /\ IdleExcept("zone")
    /\ rsi_value \in RsiArguments
    /\ rsi_class = None

ClassifyRsi ==
    /\ pc = "classify_rsi"
    /\ rsi_class' = classify_rsi(rsi_value)
    /\ pc' = "rsi_classified"
    /\ UNCHANGED rsi_value
    /\ Frame("zone")

NextZone == ClassifyRsi

SpecZone == InitZone /\ [][NextZone]_vars

\* zone, colour and action per row of the table, in the order of the tests
ZoneTable ==
    <<[zone |-> "Unsustainable Bulls", color |-> "red", action |-> "Look for Bearish Swing"],
      [zone |-> "Bullish Momentum", color |-> "green", action |-> "Bullish Bias"],
      [zone |-> "Near 60", color |-> "lightgreen", action |-> "Watch for Breakout"],
      [zone |-> "Near 50", color |-> "gray", action |-> "Neutral"],
      [zone |-> "Near 40", color |-> "orange", action |-> "Watch for Breakdown"],
      [zone |-> "Unsustainable Bears", color |-> "green", action |-> "Look for Bullish Swing"],
      [zone |-> "Bearish Momentum", color |-> "red", action |-> "Bearish Bias"]>>

\* the row whose range holds v; lo and hi are 78, 60, ... in the unit of v
\* (unit = 100 for hundredths, 300 for thirds of a hundredth)
ZoneRow(v, unit) ==
    IF v >= 78 * unit THEN 1
    ELSE IF 60 * unit < v /\ v < 78 * unit THEN 2
    ELSE IF 55 * unit <= v /\ v <= 60 * unit THEN 3
    ELSE IF 45 * unit <= v /\ v < 55 * unit THEN 4
    ELSE IF 40 * unit <= v /\ v < 45 * unit THEN 5
    ELSE IF v <= 22 * unit THEN 6
    ELSE IF 22 * unit < v /\ v < 40 * unit THEN 7
    ELSE 0

ZoneAgrees(row) ==
    /\ row # 0
    /\ rsi_class.zone = ZoneTable[row].zone
    /\ rsi_class.color = ZoneTable[row].color
    /\ rsi_class.action = ZoneTable[row].action

MissingAgrees ==
    rsi_class.value = <<>> /\ rsi_class.zone = "Not Clear"

\* C13 as stated: the ranges are those of the value v handed in.
C13_ZoneOfArgument ==
    pc = "rsi_classified" =>
        IF rsi_value.kind = "num"
          THEN ZoneAgrees(ZoneRow(rsi_value.raw, 300))
          ELSE MissingAgrees

\* C13, amended: classify_rsi gives every value exactly one zone, the ranges
\* (78 and more; above 60 and below 78; 55 to 60; 45 to below 55; 40 to below
\* 45; 22 and less; above 22 and below 40) being those of the value rounded to
\* two decimals, which is the value reported; each zone has its fixed colour
\* and action, Swing Zone is never given, and None / NaN give 'Not Clear'
\* with value None.
C13_ZoneOfRoundedValue ==
    pc = "rsi_classified" =>
        IF rsi_value.kind = "num"
          THEN /\ rsi_class.value = <<Round2(rsi_value.raw)>>
               /\ ZoneAgrees(ZoneRow(Round2(rsi_value.raw), 100))
          ELSE MissingAgrees

\* reached: 77.9967 is reported as 78.0 and classified Unsustainable Bulls
C13_Witness ==
    /\ pc = "rsi_classified"
    /\ rsi_value.kind = "num" /\ rsi_value.raw = 78 * 300 - 1
    /\ rsi_class.value = <<7800>>
    /\ rsi_class.zone = "Unsustainable Bulls"

\* --------------------------------------------------------- classify_macd

MaxOff == 2        \* MACD and signal values lie within MaxOff thirds of 0.01
                   \*   of -2.00, 0 or +2.00

\* zero_threshold: float = 2.0, in units of 0.01
zero_threshold == 200

\* MACD and signal values before rounding, in thirds of 0.01
MacdValues ==
    {a + d : a \in {-3 * zero_threshold, 0, 3 * zero_threshold}, d \in -MaxOff..MaxOff}

\* The argument: None, or the lines of calculate_macd, of which the last two
\* positions are read; histogram = macd_line - signal_line.
MacdArguments ==
    {[kind |-> "none", macd_line |-> <<>>, signal_line |-> <<>>]}
        \cup UNION {[kind : {"data"}, macd_line : [1..n -> MacdValues],
                     signal_line : [1..n -> MacdValues]] : n \in 0..2}

MacdClass(mv, sv, h, signal, crossover, tick, zone, color, action) ==
    [macd_value |-> mv, signal_value |-> sv, histogram |-> h, signal |-> signal,
     crossover |-> crossover, tick |-> tick, zone |-> zone, color |-> color,
     action |-> action]

MacdNoData ==
    MacdClass(<<>>, <<>>, <<>>, "No Data", "absent", "absent", "absent", "gray", "No Data")

\* pco with a strict comparison of the previous values
Pco_strict(macd_prev, macd_curr, signal_prev, signal_curr) ==
    macd_prev < signal_prev /\ macd_curr > signal_curr

Pco(macd_prev, macd_curr, signal_prev, signal_curr) ==
    macd_prev <= signal_prev /\ macd_curr > signal_curr

Nco(macd_prev, macd_curr, signal_prev, signal_curr) ==
    macd_prev >= signal_prev /\ macd_curr < signal_curr

classify_macd(md) ==
    IF md.kind = "none" THEN MacdNoData
    ELSE IF Len(md.macd_line) < 2 THEN MacdNoData
    ELSE
      LET n == Len(md.macd_line)
          macd_curr == Round2(md.macd_line[n])
          macd_prev == Round2(md.macd_line[n - 1])
          signal_curr == Round2(md.signal_line[n])
          signal_prev == Round2(md.signal_line[n - 1])
          hist_curr == Round2(md.macd_line[n] - md.signal_line[n])
          pco == Pco(macd_prev, macd_curr, signal_prev, signal_curr)
          nco == Nco(macd_prev, macd_curr, signal_prev, signal_curr)
          uptick == macd_curr > macd_prev
          downtick == macd_curr < macd_prev
          above_zero == macd_curr > zero_threshold
          below_zero == macd_curr < -zero_threshold
          near_zero == -zero_threshold <= macd_curr /\ macd_curr <= zero_threshold
          updown == IF uptick THEN "UP" ELSE "DOWN"
          R(signal, crossover, tick, zone, color, action) ==
              MacdClass(<<macd_curr>>, <<signal_curr>>, <<hist_curr>>,
                        signal, crossover, tick, zone, color, action)
      IN  IF pco THEN
            (IF above_zero
               THEN R("PCO Above Zero", "PCO", updown, "Above Zero", "green", "Strong Buy Signal")
             ELSE IF near_zero
               THEN R("PCO Near Zero", "PCO", updown, "Near Zero", "cyan", "Buy Signal")
             ELSE R("PCO Below Zero", "PCO", updown, "Below Zero", "yellow", "Early Buy Signal"))
          ELSE IF nco THEN
            (IF below_zero
               THEN R("NCO Below Zero", "NCO", updown, "Below Zero", "red", "Strong Sell Signal")
             ELSE IF near_zero
               THEN R("NCO Near Zero", "NCO", updown, "Near Zero", "pink", "Sell Signal")
             ELSE R("NCO Above Zero", "NCO", updown, "Above Zero", "orange", "Early Sell Signal"))
          ELSE IF uptick THEN
            (IF above_zero
               THEN R("Up Tick Above Zero", None, "UP", "Above Zero", "green", "Bullish Momentum")
             ELSE IF near_zero
               THEN R("Up Tick Below Zero", None, "UP", "Near Zero", "yellow", "Buy Signal (Near Zero)")
             ELSE R("Up Tick Below Zero", None, "UP", "Below Zero", "yellow", "Potential Reversal"))
          ELSE IF downtick THEN
            (IF below_zero
               THEN R("Down Tick Below Zero", None, "DOWN", "Below Zero", "red", "Bearish Momentum")
             ELSE IF near_zero
               THEN R("Down Tick Above Zero", None, "DOWN", "Near Zero", "orange", "Sell Signal (Near Zero)")
             ELSE R("Down Tick Above Zero", None, "DOWN", "Above Zero", "orange", "Weakening"))
          ELSE R("Neutral", None, "FLAT",
                 IF above_zero THEN "Above Zero"
                 ELSE IF below_zero THEN "Below Zero" ELSE "Near Zero",
                 "gray", "Neutral")

InitMacdClass ==
    /\ pc = "classify_macd"
    /\ IdleExcept("macd")
    /\ macd_data \in MacdArguments
    /\ macd_class = None

ClassifyMacd ==
    /\ pc = "classify_macd"
    /\ macd_class' = classify_macd(macd_data)
    /\ pc' = "macd_classified"
    /\ UNCHANGED macd_data
    /\ Frame("macd")

NextMacdClass == ClassifyMacd

SpecMacdClass == InitMacdClass /\ [][NextMacdClass]_vars

ZeroVariant(macd_curr, thr) ==
    IF macd_curr > thr THEN "Above Zero"
    ELSE IF macd_curr < -thr THEN "Below Zero" ELSE "Near Zero"

CrossoverLabel(kind, variant) ==
    CASE kind = "PCO" /\ variant = "Above Zero" -> "PCO Above Zero"
      [] kind = "PCO" /\ variant = "Near Zero" -> "PCO Near Zero"
      [] kind = "PCO" /\ variant = "Below Zero" -> "PCO Below Zero"
      [] kind = "NCO" /\ variant = "Above Zero" -> "NCO Above Zero"
      [] kind = "NCO" /\ variant = "Near Zero" -> "NCO Near Zero"
      [] kind = "NCO" /\ variant = "Below Zero" -> "NCO Below Zero"

\* the rule of C14 read on previous / current MACD and signal values
\* mp, mc, sp, sc and the threshold thr, all in one unit
CrossoverBeforeTick(mp, mc, sp, sc, thr) ==
    LET pco == mp <= sp /\ mc > sc
        nco == mp >= sp /\ mc < sc
    IN  /\ pco => macd_class.signal = CrossoverLabel("PCO", ZeroVariant(mc, thr))
        /\ nco => macd_class.signal = CrossoverLabel("NCO", ZeroVariant(mc, thr))
        /\ (~pco /\ ~nco /\ mc > mp) =>
              macd_class.signal \in {"Up Tick Above Zero", "Up Tick Below Zero"}
        /\ (~pco /\ ~nco /\ mc < mp) =>
              macd_class.signal \in {"Down Tick Above Zero", "Down Tick Below Zero"}
        /\ (~pco /\ ~nco /\ mc = mp) => macd_class.signal = "Neutral"

MacdClassified ==
    pc = "macd_classified" /\ macd_data.kind = "data" /\ Len(macd_data.macd_line) = 2

\* C14 as stated: the comparisons are those of the MACD and signal values
\* handed in.
C14_CrossoverOfArguments ==
    MacdClassified =>
        CrossoverBeforeTick(macd_data.macd_line[1], macd_data.macd_line[2],
                            macd_data.signal_line[1], macd_data.signal_line[2],
                            3 * zero_threshold)

\* C14, amended: on the MACD and signal values rounded to two decimals (the
\* values reported), classify_macd tests crossover before tick direction: PCO
\* when previous MACD <= previous signal and current MACD > current signal,
\* NCO when previous MACD >= previous signal and current MACD < current
\* signal, in the Above / Near / Below Zero variant of the current MACD against
\* +-zero_threshold; without crossover an Up Tick or Down Tick label as the
\* current MACD is greater or smaller than the previous one, and Neutral only
\* when they are equal.
C14_CrossoverOfRoundedValues ==
    MacdClassified =>
        /\ macd_class.macd_value = <<Round2(macd_data.macd_line[2])>>
        /\ macd_class.signal_value = <<Round2(macd_data.signal_line[2])>>
        /\ CrossoverBeforeTick(Round2(macd_data.macd_line[1]),
                               Round2(macd_data.macd_line[2]),
                               Round2(macd_data.signal_line[1]),
                               Round2(macd_data.signal_line[2]),
                               zero_threshold)

\* reached: the previous MACD was above its signal but both round to the
\* same value, the current MACD is above the signal and above the zero band:
\* reported as a positive crossover above zero
C14_Witness ==
    /\ MacdClassified
    /\ macd_data.macd_line[1] > macd_data.signal_line[1]
    /\ Round2(macd_data.macd_line[1]) = Round2(macd_data.signal_line[1])
    /\ macd_class.signal = "PCO Above Zero"
    /\ macd_class.tick = "UP"

\* ------------------------------------------ the analyses of an instrument
\* get_rsi_analysis and get_macd_analysis classify each timeframe of
\* TIMEFRAMES from the candles fetched for it; analyze_timeframe gives the
\* trend of one sequence of candles.

MaxOver == 0     \* candles beyond the minimum in the longest sequence

rsi_period == 14         \* calculate_rsi(df, period=14)
rsi_min_candles == 15    \* len(df) >= 15
tf_min_candles == 20     \* len(df) < 20

\* An optional DataFrame: <<>> is None, <<rows>> holds the candles.
NoFrame == <<>>

\* Price paths in thirds of 0.01: a steady rise, and a swing of eight bars
\* on a rise.
Shapes == {"rise", "swing"}

ShapeValue(shape, k) ==
    IF shape = "rise" THEN 3000 + 300 * k
    ELSE 6000 + 900 * Abs((k % 8) - 4) + 150 * k

Bar(v) == [High |-> v + 30, Low |-> v - 30, Close |-> v]

DataFrame(shape, n) == <<[k \in 1..n |-> Bar(ShapeValue(shape, k))]>>

\* fetch_data gives None for an empty answer or an error, else the candles.
FetchedLengths(min) == {1} \cup ((min - 1)..(min + MaxOver))

FetchedFrames(keys, shape, lengths) ==
    {[tf \in keys |-> IF n[tf] = -1 THEN NoFrame ELSE DataFrame(shape, n[tf])] :
        n \in [keys -> {-1} \cup lengths]}

\* df is not None and len(df) >= min, without the test of the length
HasCandles_any(d, min) == d # NoFrame

\* df is not None and len(df) >= min
HasCandles(d, min) == d # NoFrame /\ Len(d[1]) >= min

CloseOf(d) == [k \in DOMAIN d[1] |-> d[1][k].Close]

\* A computed value carried at the resolution of the raw values: the nearest
\* whole number.
Carried(x) == (2 * x[1] + x[2]) \div (2 * x[2])

\* rsi.iloc[-1] if len(rsi) > 0 else None, as an argument of classify_rsi
\* (in thirds of 0.01)
CurrentRsi(series) ==
    IF Len(series) = 0 THEN [kind |-> "none", raw |-> 0]
    ELSE IF IsNaN(Last(series)) THEN [kind |-> "nan", raw |-> 0]
    ELSE [kind |-> "num", raw |-> Carried(RatMul(<<300, 1>>, Last(series)))]

RsiTimeframe(d) ==
    IF HasCandles(d, rsi_min_candles)
      THEN classify_rsi(CurrentRsi(calculate_rsi_tradingview(CloseOf(d), rsi_period)))
      ELSE RsiClass(<<>>, "No Data", "gray", "N/A")

get_rsi_analysis(frames) == [tf \in TIMEFRAMES |-> RsiTimeframe(frames[tf])]

RECURSIVE RatSum(_, _)
RatSum(data, n) == IF n = 0 THEN <<0, 1>> ELSE RatAdd(RatSum(data, n - 1), data[n])

\* ema[i]: 0 throughout when the data is shorter than the period, else 0
\* before position period-1, the mean of data[:period] at period-1, then
\* data[i] * multiplier + ema[i-1] * (1 - multiplier)
RECURSIVE Ema(_, _, _)
Ema(data, p, i) ==
    IF Len(data) < p \/ i < p - 1 THEN <<0, 1>>
    ELSE IF i = p - 1 THEN RatDiv(RatSum(data, p), <<p, 1>>)
    ELSE LET multiplier == Rat(2, p + 1)
         IN  RatAdd(RatMul(At(data, i), multiplier),
                    RatMul(Ema(data, p, i - 1), RatSub(<<1, 1>>, multiplier)))

calculate_ema(data, p) == [k \in DOMAIN data |-> Ema(data, p, k - 1)]

NoMacd == [kind |-> "none", macd_line |-> <<>>, signal_line |-> <<>>]

calculate_macd(d, fast, slow, signal) ==
    IF ~HasCandles(d, slow + signal) THEN NoMacd
    ELSE
      LET c == [k \in DOMAIN d[1] |-> <<d[1][k].Close, 1>>]
          n == Len(c)
          ema_fast == calculate_ema(c, fast)
          ema_slow == calculate_ema(c, slow)
          macd_line == [k \in 1..n |-> IF k < slow THEN <<0, 1>>
                                       ELSE RatSub(ema_fast[k], ema_slow[k])]
          macd_for_signal == SubSeq(macd_line, slow, n)
          ema_signal == calculate_ema(macd_for_signal, signal)
          signal_line == [k \in 1..n |->
                            IF k < slow \/ Len(macd_for_signal) < signal
                              THEN <<0, 1>>
                              ELSE ema_signal[k - slow + 1]]
      IN  [kind |-> "data", macd_line |-> macd_line, signal_line |-> signal_line]

\* the lines as classify_macd reads them, in thirds of 0.01
CarriedLines(md) ==
    [kind |-> md.kind,
     macd_line |-> [k \in DOMAIN md.macd_line |-> Carried(md.macd_line[k])],
     signal_line |-> [k \in DOMAIN md.signal_line |-> Carried(md.signal_line[k])]]

MacdTimeframe(d, fast, slow, signal_period) ==
    IF HasCandles(d, slow + signal_period)
      THEN classify_macd(CarriedLines(calculate_macd(d, fast, slow, signal_period)))
      ELSE MacdClass(<<>>, <<>>, <<>>, "No Data", "absent", "absent", "absent",
                     "gray", "N/A")

get_macd_analysis(frames, fast, slow, signal_period) ==
    [tf \in TIMEFRAMES |-> MacdTimeframe(frames[tf], fast, slow, signal_period)]

\* s[-5:]
Last5(s) == SubSeq(s, IF Len(s) > 5 THEN Len(s) - 4 ELSE 1, Len(s))

analyze_timeframe(d, pivot_len) ==
    IF ~HasCandles(d, tf_min_candles)
      THEN [trend |-> "No Data", color |-> "gray", confidence |-> 0,
            pivots |-> [highs |-> <<>>, lows |-> <<>>]]
      ELSE
        LET ph == find_pivot_highs(d[1], pivot_len, pivot_len)
            pl == find_pivot_lows(d[1], pivot_len, pivot_len)
            lp == label_pivots(ph, pl)
        IN  [pivots |-> [highs |-> Last5(lp.highs), lows |-> Last5(lp.lows)]]
                @@ determine_trend(lp)

AnalysisArgs(fast, slow, signal_period, pivot_len) ==
    [fast |-> fast, slow |-> slow, signal_period |-> signal_period,
     pivot_len |-> pivot_len]

\* the MACD periods tried: the signal period below and at the slow period
MacdPeriods == {<<1, 2, 1>>, <<1, 2, 2>>, <<2, 3, 2>>}

PivotLens == {3, 5}

InitAnalysis ==
    /\ IdleExcept("analysis")
    /\ an_result = None
    /\ \E shape \in Shapes :
          \/ /\ pc = "get_rsi_analysis"
             /\ an_args = AnalysisArgs(0, 0, 0, 0)
             /\ an_feed \in FetchedFrames(TIMEFRAMES, shape,
                                          FetchedLengths(rsi_min_candles))
          \/ /\ pc = "get_macd_analysis"
             /\ \E p \in MacdPeriods :
                   /\ an_args = AnalysisArgs(p[1], p[2], p[3], 0)
                   /\ an_feed \in FetchedFrames(TIMEFRAMES, shape,
                                                FetchedLengths(p[2] + p[3]))
          \/ /\ pc = "analyze_timeframe"
             /\ \E pivot_len \in PivotLens : an_args = AnalysisArgs(0, 0, 0, pivot_len)
             /\ an_feed \in FetchedFrames({"df"}, shape,
                                          {0} \cup FetchedLengths(tf_min_candles))

GetRsiAnalysis ==
    /\ pc = "get_rsi_analysis"
    /\ an_result' = get_rsi_analysis(an_feed)
    /\ pc' = "rsi_analysis_done"
    /\ UNCHANGED <<an_args, an_feed>>
    /\ Frame("analysis")

GetMacdAnalysis ==
    /\ pc = "get_macd_analysis"
    /\ an_result' = get_macd_analysis(an_feed, an_args.fast, an_args.slow,
                                      an_args.signal_period)
    /\ pc' = "macd_analysis_done"
    /\ UNCHANGED <<an_args, an_feed>>
    /\ Frame("analysis")

AnalyzeTimeframe ==
    /\ pc = "analyze_timeframe"
    /\ an_result' = analyze_timeframe(an_feed["df"], an_args.pivot_len)
    /\ pc' = "timeframe_done"
    /\ UNCHANGED <<an_args, an_feed>>
    /\ Frame("analysis")

NextAnalysis == GetRsiAnalysis \/ GetMacdAnalysis \/ AnalyzeTimeframe

SpecAnalysis == InitAnalysis /\ [][NextAnalysis]_vars

\* no data at all, or fewer than min candles
TooShort(d, min) == d = NoFrame \/ Len(d[1]) < min

\* C15: a sequence shorter than the indicator's minimum (fewer than
\* period + 1 candles for RSI, fewer than slow + signal for MACD, fewer than
\* 20 or no data at all for analyze_timeframe) gives the sentinel and no
\* exception: RSI zone 'Not Clear' or 'No Data' with value None, MACD signal
\* 'No Data' with all values None, trend 'No Data' with confidence 0 and
\* empty pivot lists.
C15_ShortSequenceGivesSentinel ==
    /\ pc = "rsi_analysis_done" =>
          \A tf \in TIMEFRAMES :
              TooShort(an_feed[tf], 14 + 1) =>
                  /\ an_result[tf].zone \in {"Not Clear", "No Data"}
                  /\ an_result[tf].value = <<>>
    /\ pc = "macd_analysis_done" =>
          \A tf \in TIMEFRAMES :
              TooShort(an_feed[tf], an_args.slow + an_args.signal_period) =>
                  /\ an_result[tf].signal = "No Data"
                  /\ an_result[tf].macd_value = <<>>
                  /\ an_result[tf].signal_value = <<>>
                  /\ an_result[tf].histogram = <<>>
    /\ pc = "timeframe_done" =>
          (TooShort(an_feed["df"], 20) =>
              /\ an_result.trend = "No Data"
              /\ an_result.confidence = 0
              /\ an_result.pivots.highs = <<>>
              /\ an_result.pivots.lows = <<>>)

\* reached: nineteen candles given to analyze_timeframe come back as No Data
C15_Witness ==
    /\ pc = "timeframe_done"
    /\ an_feed["df"] # NoFrame
    /\ Len(an_feed["df"][1]) = 19
    /\ an_result.trend = "No Data"

\* reached as well: in one answer of get_rsi_analysis a timeframe of fourteen
\* candles is No Data next to a timeframe of fifteen candles with a value
C15_WitnessRsi ==
    /\ pc = "rsi_analysis_done"
    /\ an_feed["daily"] # NoFrame /\ Len(an_feed["daily"][1]) = 14
    /\ an_result["daily"].zone = "No Data"
    /\ an_feed["weekly"] # NoFrame /\ Len(an_feed["weekly"][1]) = 15
    /\ an_result["weekly"].value # <<>>

\* and: get_macd_analysis with one candle too few next to enough candles
C15_WitnessMacd ==
    /\ pc = "macd_analysis_done"
    /\ an_feed["daily"] # NoFrame
    /\ Len(an_feed["daily"][1]) = an_args.slow + an_args.signal_period - 1
    /\ an_result["daily"].signal = "No Data"
    /\ an_feed["weekly"] # NoFrame
    /\ Len(an_feed["weekly"][1]) = an_args.slow + an_args.signal_period
    /\ an_result["weekly"].signal # "No Data"

\* C16: an invalid pivot window (left <= 0 or right <= 0) handed to
\* find_pivot_highs / find_pivot_lows raises instead of returning a result,
\* and is not replaced by a default: the functions return pivot lists only
\* for a window with left >= 1 and right >= 1.
C16_InvalidWindowRaises ==
    pc = "pivots_found" => (left >= 1 /\ right >= 1)

\* ----------------------------------------------------- relative strength
\* A returns dict is a function from its keys to optional numbers: a key
\* whose value is <<>> is present with the value None.

MaxReturn == 2     \* returns are -MaxReturn..MaxReturn percent

ReturnKeys == {"Daily", "Weekly"}

ReturnDicts ==
    UNION {[ks -> Optional(-MaxReturn..MaxReturn)] : ks \in SUBSET ReturnKeys}

\* A dict of StockRelativeStrength.calculate_returns holds no None: a period
\* that cannot be computed gets no key.
WithoutNone(dict) == \A p \in DOMAIN dict : dict[p] # <<>>

\* SectorRelativeStrength.calculate_relative_strength
calculate_relative_strength(sector_returns, benchmark_returns) ==
    [p \in DOMAIN sector_returns |->
        IF sector_returns[p] # <<>> /\ Get(benchmark_returns, p) # <<>>
          THEN <<sector_returns[p][1] - benchmark_returns[p][1]>>
          ELSE <<>>]

\* the loop of StockRelativeStrength.analyze_sector_stocks: a key is assigned
\* only when both values are there
stock_relative_strength(returns, benchmark_returns) ==
    [p \in {q \in DOMAIN returns :
               Get(returns, q) # <<>> /\ Get(benchmark_returns, q) # <<>>} |->
        <<returns[p][1] - benchmark_returns[p][1]>>]

InitRelative ==
    /\ IdleExcept("relative")
    /\ rs_returns \in ReturnDicts
    /\ rs_benchmark \in ReturnDicts
    /\ relative = <<>>
    /\ \/ /\ pc = "calculate_relative_strength"
          /\ rs_fn = "calculate_relative_strength"
       \/ /\ pc = "stock_relative_strength"
          /\ rs_fn = "analyze_sector_stocks"
          /\ WithoutNone(rs_returns)
          /\ WithoutNone(rs_benchmark)
          /\ DOMAIN rs_benchmark # {}

CalculateRelativeStrength ==
    /\ pc = "calculate_relative_strength"
    /\ relative' = calculate_relative_strength(rs_returns, rs_benchmark)
    /\ pc' = "relative_done"
    /\ UNCHANGED <<rs_fn, rs_returns, rs_benchmark>>
    /\ Frame("relative")

StockRelativeStrength ==
    /\ pc = "stock_relative_strength"
    /\ relative' = stock_relative_strength(rs_returns, rs_benchmark)
    /\ pc' = "relative_done"
    /\ UNCHANGED <<rs_fn, rs_returns, rs_benchmark>>
    /\ Frame("relative")

NextRelative == CalculateRelativeStrength \/ StockRelativeStrength

SpecRelative == InitRelative /\ [][NextRelative]_vars

\* C17: the relative strength has an entry for exactly the periods present in
\* the instrument's returns: instrument return minus benchmark return, and
\* None whenever the instrument's value is None or the benchmark's value is
\* None or missing.
C17_DifferenceOrNonePerPeriod ==
    pc = "relative_done" =>
        /\ DOMAIN relative = DOMAIN rs_returns
        /\ \A p \in DOMAIN rs_returns :
              relative[p] =
                  IF rs_returns[p] # <<>> /\ Get(rs_benchmark, p) # <<>>
                    THEN <<rs_returns[p][1] - rs_benchmark[p][1]>>
                    ELSE <<>>

\* the months, among the candles', strictly before the latest candle's month
EarlierMonths == {YearMonth(dates[k]) : k \in DOMAIN dates}
                     \cap {m \in Int : m < YearMonth(dates[Len(dates)])}

\* C18: when fewer than N earlier periods are available for a granularity
\* (fewer than N earlier candles for Daily, fewer than N earlier months with
\* candles for Monthly), calculate_returns of either class returns None for
\* that period with the period's key present, and still returns the periods
\* that have enough history.
C18_MissingHistoryGivesNone ==
    (pc = "returns_done" /\ Len(dates) >= 2) =>
        /\ Len(dates) - 1 < lookback =>
              "Daily" \in DOMAIN reference /\ reference["Daily"] = <<>>
        /\ Cardinality(EarlierMonths) < lookback =>
              "Monthly" \in DOMAIN reference /\ reference["Monthly"] = <<>>
        /\ Len(dates) - 1 >= lookback =>
              Get(reference, "Daily") = <<Len(dates) - 1 - lookback>>
        /\ Cardinality(EarlierMonths) >= lookback =>
              Get(reference, "Monthly") # <<>>

\* -------------------------------------------------- the value of a return
\* calculate_returns and calculate_intraday_returns of both classes, with the
\* closes: each period's value is the change of the last close against the
\* period's reference close, in percent.

MaxHours == 5      \* longest sequence of candles

CloseValues == {100, 101, 102, 105}

\* ((current_price - prev_close) / prev_close) * 100
PercentChange(current_price, prev_close) ==
    RatMul(RatDiv(<<current_price - prev_close, 1>>, <<prev_close, 1>>), <<100, 1>>)

\* df['Close'].iloc[-k]
FromEnd(c, k) == c[Len(c) - k + 1]

\* the 4 Hour offset taken as the 1 Hour offset
FourHourOffset_one(N) == N

\* four_hour_offset = 4 * lookback
FourHourOffset(N) == 4 * N

\* one_hour_offset = lookback
OneHourOffset(N) == N

IntradayValue(c, offset) ==
    IF Len(c) > offset
      THEN <<PercentChange(FromEnd(c, 1), FromEnd(c, offset + 1))>>
      ELSE <<>>

IntradayValues(c, N) ==
    [p \in {"1 Hour", "4 Hour"} |->
        IF p = "1 Hour" THEN IntradayValue(c, OneHourOffset(N))
        ELSE IntradayValue(c, FourHourOffset(N))]

\* SectorRelativeStrength.calculate_intraday_returns: None without the bars
sector_calculate_intraday_returns(c, N) ==
    IF Len(c) < 2 THEN EmptyDict ELSE IntradayValues(c, N)

\* StockRelativeStrength.calculate_intraday_returns: no key without the bars
stock_calculate_intraday_returns(c, N) ==
    IF Len(c) < 2 THEN EmptyDict ELSE OnlyFound(IntradayValues(c, N))

\* the values of the periods whose reference candles are at positions refs
ValuesAt(c, refs) ==
    [p \in DOMAIN refs |->
        IF refs[p] = <<>> THEN <<>>
        ELSE <<PercentChange(FromEnd(c, 1), At(c, refs[p][1]))>>]

sector_returns(c, ds, N) == ValuesAt(c, sector_calculate_returns(ds, N))

stock_returns(c, ds, N) == ValuesAt(c, stock_calculate_returns(ds, N))

\* n consecutive trading days from Monday 20 May 2024
TradingDays(n) ==
    [k \in 1..n |-> Ordinal(2024, 5, 20) + (k - 1) + 2 * ((k - 1) \div 5)]

DailyFunctions ==
    {"SectorRelativeStrength.calculate_returns",
     "StockRelativeStrength.calculate_returns"}

IntradayFunctions ==
    {"SectorRelativeStrength.calculate_intraday_returns",
     "StockRelativeStrength.calculate_intraday_returns"}

InitValue ==
    /\ pc = "return_values"
    /\ IdleExcept("value")
    /\ rv_fn \in DailyFunctions \cup IntradayFunctions
    /\ rv_close \in SeqsUpTo(CloseValues, MaxHours)
    /\ rv_dates = IF rv_fn \in DailyFunctions THEN TradingDays(Len(rv_close)) ELSE <<>>
    /\ rv_lookback \in 1..MaxLookback
    /\ rv_returns = <<>>

SectorReturns ==
    /\ pc = "return_values" /\ rv_fn = "SectorRelativeStrength.calculate_returns"
    /\ rv_returns' = sector_returns(rv_close, rv_dates, rv_lookback)
    /\ pc' = "values_done"
    /\ UNCHANGED <<rv_fn, rv_close, rv_dates, rv_lookback>>
    /\ Frame("value")

StockReturns ==
    /\ pc = "return_values" /\ rv_fn = "StockRelativeStrength.calculate_returns"
    /\ rv_returns' = stock_returns(rv_close, rv_dates, rv_lookback)
    /\ pc' = "values_done"
    /\ UNCHANGED <<rv_fn, rv_close, rv_dates, rv_lookback>>
    /\ Frame("value")

SectorIntradayReturns ==
    /\ pc = "return_values"
    /\ rv_fn = "SectorRelativeStrength.calculate_intraday_returns"
    /\ rv_returns' = sector_calculate_intraday_returns(rv_close, rv_lookback)
    /\ pc' = "values_done"
    /\ UNCHANGED <<rv_fn, rv_close, rv_dates, rv_lookback>>
    /\ Frame("value")

StockIntradayReturns ==
    /\ pc = "return_values"
    /\ rv_fn = "StockRelativeStrength.calculate_intraday_returns"
    /\ rv_returns' = stock_calculate_intraday_returns(rv_close, rv_lookback)
    /\ pc' = "values_done"
    /\ UNCHANGED <<rv_fn, rv_close, rv_dates, rv_lookback>>
    /\ Frame("value")

NextValue ==
    SectorReturns \/ StockReturns \/ SectorIntradayReturns \/ StockIntradayReturns

SpecValue == InitValue /\ [][NextValue]_vars

\* (C[L-1] - C[L-1-offset]) / C[L-1-offset] * 100 on the closes at hand, and
\* no number when L <= offset
OffsetReturn(offset) ==
    LET L == Len(rv_close)
    IN  IF L > offset
          THEN <<Rat((At(rv_close, L - 1) - At(rv_close, L - 1 - offset)) * 100,
                     At(rv_close, L - 1 - offset))>>
          ELSE <<>>

\* C19: for closes C of length L and lookback N, calculate_returns gives
\* Daily = (C[L-1] - C[L-1-N]) / C[L-1-N] * 100 when L > N, and
\* calculate_intraday_returns gives '1 Hour' by the same formula with offset N
\* and '4 Hour' with offset 4*N; with L <= offset the period has no number.
C19_ReturnByIndexOffset ==
    pc = "values_done" =>
        /\ rv_fn \in DailyFunctions =>
              Get(rv_returns, "Daily") = OffsetReturn(rv_lookback)
        /\ rv_fn \in IntradayFunctions =>
              /\ Get(rv_returns, "1 Hour") = OffsetReturn(rv_lookback)
              /\ Get(rv_returns, "4 Hour") = OffsetReturn(4 * rv_lookback)

\* reached: closes [100, 102, 101, 105] with N = 1 give Daily = 400/101
C19_Witness ==
    /\ pc = "values_done"
    /\ rv_fn = "SectorRelativeStrength.calculate_returns"
    /\ rv_close = <<100, 102, 101, 105>>
    /\ rv_lookback = 1
    /\ rv_returns["Daily"] = <<<<400, 101>>>>

\* reached as well: five hourly bars, '4 Hour' measured against the first and
\* '1 Hour' against the fourth
C19_WitnessIntraday ==
    /\ pc = "values_done"
    /\ rv_fn = "SectorRelativeStrength.calculate_intraday_returns"
    /\ rv_close = <<100, 102, 101, 102, 105>>
    /\ rv_lookback = 1
    /\ rv_returns["4 Hour"] = <<<<5, 1>>>>
    /\ rv_returns["1 Hour"] = <<<<50, 17>>>>

\* ------------------------------------------------------- categorisation
\* Relative strength is counted in units of 0.01 percent points.

MaxSectors == 2    \* most sectors in the results besides the benchmark
one_percent == 100   \* the 1.0 of  rel > 1.0  and  rel < -1.0

\* the relative strengths tried: 0, and -1.01, -1.00, +1.00, +1.01
RsValues == {-101, -100, 0, 100, 101}

\* The relative dict of an instrument: empty, or Weekly and Daily, each None
\* or a number.
RelativeDicts ==
    {EmptyDict} \cup [{"Weekly", "Daily"} -> Optional(RsValues)]

Sector(name, is_benchmark, rel) ==
    [name |-> name, is_benchmark |-> is_benchmark, relative |-> rel]

\* analyze_all_sectors: the benchmark first, 0.0 for each of its periods
BenchmarkEntry == Sector(0, TRUE, [p \in {"Weekly", "Daily"} |-> <<0>>])

\* the result list for the relative dicts rel of the sectors
SectorResults(rel) ==
    <<BenchmarkEntry>> \o [k \in DOMAIN rel |-> Sector(k, FALSE, rel[k])]

\* the comparisons with >= and <=
Category_inclusive(rel) ==
    IF rel >= one_percent THEN "outperforming"
    ELSE IF rel <= -one_percent THEN "underperforming"
    ELSE "neutral"

\* if rel > 1.0 ... elif rel < -1.0 ... else
Category(rel) ==
    IF rel > one_percent THEN "outperforming"
    ELSE IF rel < -one_percent THEN "underperforming"
    ELSE "neutral"

categorize_sectors(sectors, timeframe) ==
    LET rel(x) == Get(x.relative, timeframe)
        counted == SelectSeq(sectors, LAMBDA x : ~x.is_benchmark /\ rel(x) # <<>>)
        of(c) == SelectSeq(counted, LAMBDA x : Category(rel(x)[1]) = c)
        keys(seq) == [k \in DOMAIN seq |-> rel(seq[k])[1]]
        outperforming == of("outperforming")
        underperforming == of("underperforming")
    IN  [outperforming |-> SortedBy(outperforming, keys(outperforming), TRUE),
         neutral |-> of("neutral"),
         underperforming |-> SortedBy(underperforming, keys(underperforming), FALSE)]

\* timeframe.lower() on the arguments tried
Lower(t) == IF t = "Weekly" THEN "weekly" ELSE IF t = "DAILY" THEN "daily" ELSE t

tf_map ==
    [t \in {"1h", "4h", "daily", "weekly", "monthly", "3m"} |->
        CASE t = "1h" -> "1 Hour"
          [] t = "4h" -> "4 Hour"
          [] t = "daily" -> "Daily"
          [] t = "weekly" -> "Weekly"
          [] t = "monthly" -> "Monthly"
          [] t = "3m" -> "3 Month"]

\* tf_map.get(timeframe.lower(), 'Weekly')
StatusPeriod(timeframe) ==
    IF Lower(timeframe) \in DOMAIN tf_map THEN tf_map[Lower(timeframe)] ELSE "Weekly"

\* services/scanner.py get_status
get_status(rel, timeframe) ==
    LET rs == OrElse(Get(rel, StatusPeriod(timeframe)), 0)
    IN  Category(rs)

StatusTimeframes == {"weekly", "Weekly", "daily", "DAILY", "3m", "yearly"}

InitStatus ==
    /\ IdleExcept("status")
    /\ st_out = None
    /\ \/ /\ pc = "categorize_sectors"
          /\ st_fn = "categorize_sectors"
          /\ \E n \in 0..MaxSectors : \E rel \in [1..n -> RelativeDicts] :
                st_results = SectorResults(rel)
          /\ st_timeframe \in {"Weekly", "Daily"}
       \/ /\ pc = "get_status"
          /\ st_fn = "get_status"
          /\ \E rel \in RelativeDicts : st_results = <<Sector(1, FALSE, rel)>>
          /\ st_timeframe \in StatusTimeframes

CategorizeSectors ==
    /\ pc = "categorize_sectors"
    /\ st_out' = categorize_sectors(st_results, st_timeframe)
    /\ pc' = "categorized"
    /\ UNCHANGED <<st_fn, st_results, st_timeframe>>
    /\ Frame("status")

GetStatus ==
    /\ pc = "get_status"
    /\ st_out' = get_status(st_results[1].relative, st_timeframe)
    /\ pc' = "status_given"
    /\ UNCHANGED <<st_fn, st_results, st_timeframe>>
    /\ Frame("status")

NextStatus == CategorizeSectors \/ GetStatus

SpecStatus == InitStatus /\ [][NextStatus]_vars

\* how often the instrument called name stands in a list
Times(list, name) == Cardinality({k \in DOMAIN list : list[k].name = name})

\* the period a get_status caller selects: daily or weekly in any case of
\* letters, the 3 Month period by '3m', Weekly by default
SelectedPeriod ==
    CASE st_timeframe \in {"daily", "DAILY"} -> "Daily"
      [] st_timeframe = "3m" -> "3 Month"
      [] OTHER -> "Weekly"

\* C20: with rs the relative strength on the selected period, an instrument
\* is outperforming when rs > 1.0, underperforming when rs < -1.0, neutral
\* otherwise (so at exactly +1.0 and -1.0), in categorize_sectors and in
\* get_status; a categorised instrument stands in exactly one of the three
\* lists, once.
C20_StrictOnePercentBands ==
    /\ pc = "categorized" =>
          \A k \in DOMAIN st_results :
              LET x == st_results[k]
                  rs == Get(x.relative, st_timeframe)
                  n(c) == Times(st_out[c], x.name)
              IN  (~x.is_benchmark /\ rs # <<>>) =>
                      /\ n("outperforming") = (IF rs[1] > 100 THEN 1 ELSE 0)
                      /\ n("underperforming") = (IF rs[1] < -100 THEN 1 ELSE 0)
                      /\ n("neutral") =
                             (IF rs[1] >= -100 /\ rs[1] <= 100 THEN 1 ELSE 0)
    /\ pc = "status_given" =>
          LET rs == Get(st_results[1].relative, SelectedPeriod)
          IN  rs # <<>> =>
                  st_out = (IF rs[1] > 100 THEN "outperforming"
                            ELSE IF rs[1] < -100 THEN "underperforming"
                            ELSE "neutral")

\* reached: on the Daily period one sector at exactly +1.00 is neutral while
\* the other at +1.01 is outperforming, whatever their Weekly values
C20_Witness ==
    /\ pc = "categorized"
    /\ st_timeframe = "Daily"
    /\ Len(st_results) = 3
    /\ st_results[2].relative # EmptyDict
    /\ st_results[3].relative # EmptyDict
    /\ st_results[2].relative["Daily"] = <<100>>
    /\ st_results[3].relative["Daily"] = <<101>>
    /\ st_results[2].relative["Weekly"] = <<-101>>
    /\ Times(st_out["neutral"], 1) = 1
    /\ Times(st_out["outperforming"], 2) = 1
    /\ Len(st_out["underperforming"]) = 0

\* reached as well: get_status at exactly -1.00 is neutral
C20_WitnessStatus ==
    /\ pc = "status_given"
    /\ st_timeframe = "DAILY"
    /\ st_results[1].relative # EmptyDict
    /\ st_results[1].relative["Daily"] = <<-100>>
    /\ st_out = "neutral"

\* --------------------------------------------------------- aggregate_to_4h
\* DowTheoryAnalyzer.aggregate_to_4h and TechnicalAnalyzer.aggregate_to_4h
\* (the same code).  A timestamp is date * 24 + hour.

MaxHourly == 3     \* longest sequence of hourly candles

HourlyDates == {1, 2}

HourlyHours == {8, 9, 12, 13}

DateOf(ts) == ts \div 24

HourOf(ts) == ts % 24

HourlyCandle(ts, o, h, l, c, v) ==
    [datetime |-> ts, Open |-> o, High |-> h, Low |-> l, Close |-> c, Volume |-> v]

\* the price and volume patterns of an hourly candle
HourlyShapes ==
    {<<1, 2, 1, 2, 1>>, <<2, 2, 1, 1, 2>>, <<1, 1, 1, 1, 1>>, <<2, 3, 2, 3, 3>>}

\* Hourly data as the supplier gives it: timestamps strictly increasing.
HourlyStamps ==
    {S \in SUBSET {d * 24 + h : d \in HourlyDates, h \in HourlyHours} :
        Cardinality(S) <= MaxHourly}

HourlyFrame(stamps, sh) ==
    <<[k \in 1..Cardinality(stamps) |->
         HourlyCandle(SetToSeq(stamps)[k], sh[k][1], sh[k][2], sh[k][3],
                      sh[k][4], sh[k][5])]>>

\* the first candle taken up to and including 13 o'clock
InFirstCandle_to13(hour) == hour >= 9 /\ hour <= 13

\* (hours >= 9) & (hours < 13)
InFirstCandle(hour) == hour >= 9 /\ hour < 13

\* hours >= 13
InSecondCandle(hour) == hour >= 13

RECURSIVE SeqMax(_, _)
SeqMax(vals, n) ==
    IF n = 1 THEN vals[1]
    ELSE IF vals[n] > SeqMax(vals, n - 1) THEN vals[n] ELSE SeqMax(vals, n - 1)

RECURSIVE SeqMin(_, _)
SeqMin(vals, n) ==
    IF n = 1 THEN vals[1]
    ELSE IF vals[n] < SeqMin(vals, n - 1) THEN vals[n] ELSE SeqMin(vals, n - 1)

RECURSIVE SeqSum(_, _)
SeqSum(vals, n) == IF n = 0 THEN 0 ELSE vals[n] + SeqSum(vals, n - 1)

\* the dict appended for a non-empty part of a day
FourHourCandle(part) ==
    HourlyCandle(part[1].datetime,
                 part[1].Open,
                 SeqMax([k \in DOMAIN part |-> part[k].High], Len(part)),
                 SeqMin([k \in DOMAIN part |-> part[k].Low], Len(part)),
                 part[Len(part)].Close,
                 SeqSum([k \in DOMAIN part |-> part[k].Volume], Len(part)))

\* what one group of df_copy.groupby('date') appends to result
DayCandles(group) ==
    LET first_candle == SelectSeq(group, LAMBDA r : InFirstCandle(HourOf(r.datetime)))
        second_candle == SelectSeq(group, LAMBDA r : InSecondCandle(HourOf(r.datetime)))
    IN  (IF Len(first_candle) >= 1 THEN <<FourHourCandle(first_candle)>> ELSE <<>>)
            \o (IF Len(second_candle) >= 1 THEN <<FourHourCandle(second_candle)>>
                ELSE <<>>)

\* the groups in the order of their dates
RECURSIVE GroupedCandles(_, _, _)
GroupedCandles(rows, days, n) ==
    IF n = 0 THEN <<>>
    ELSE GroupedCandles(rows, days, n - 1)
             \o DayCandles(SelectSeq(rows, LAMBDA r : DateOf(r.datetime) = days[n]))

aggregate_to_4h(d) ==
    IF d = NoFrame THEN NoFrame
    ELSE IF Len(d[1]) = 0 THEN NoFrame
    ELSE LET rows == d[1]
             days == SetToSeq({DateOf(rows[k].datetime) : k \in DOMAIN rows})
             result == GroupedCandles(rows, days, Len(days))
         IN  IF result = <<>> THEN NoFrame ELSE <<result>>

InitAggregate ==
    /\ pc = "aggregate_to_4h"
    /\ IdleExcept("aggregate")
    /\ agg_class \in {"DowTheoryAnalyzer", "TechnicalAnalyzer"}
    /\ \/ agg_given = NoFrame
       \/ \E stamps \in HourlyStamps :
             \E sh \in [1..Cardinality(stamps) -> HourlyShapes] :
                agg_given = HourlyFrame(stamps, sh)
    /\ agg_df = agg_given
    /\ agg_out = NoFrame

\* The method works on df.copy(): the object handed in is not written.
DowAggregateTo4h ==
    /\ pc = "aggregate_to_4h" /\ agg_class = "DowTheoryAnalyzer"
    /\ agg_out' = aggregate_to_4h(agg_df)
    /\ pc' = "aggregated"
    /\ UNCHANGED <<agg_class, agg_given, agg_df>>
    /\ Frame("aggregate")

TechnicalAggregateTo4h ==
    /\ pc = "aggregate_to_4h" /\ agg_class = "TechnicalAnalyzer"
    /\ agg_out' = aggregate_to_4h(agg_df)
    /\ pc' = "aggregated"
    /\ UNCHANGED <<agg_class, agg_given, agg_df>>
    /\ Frame("aggregate")

NextAggregate == DowAggregateTo4h \/ TechnicalAggregateTo4h

SpecAggregate == InitAggregate /\ [][NextAggregate]_vars

GivenRows == IF agg_given = NoFrame THEN <<>> ELSE agg_given[1]

OutRows == IF agg_out = NoFrame THEN <<>> ELSE agg_out[1]

\* the positions of the given candles of date d in bucket "A" (hour in
\* [9, 13)) or "B" (hour >= 13)
Bucket(d, b) ==
    {k \in DOMAIN GivenRows :
        /\ DateOf(GivenRows[k].datetime) = d
        /\ IF b = "A" THEN 9 <= HourOf(GivenRows[k].datetime)
                           /\ HourOf(GivenRows[k].datetime) < 13
           ELSE HourOf(GivenRows[k].datetime) >= 13}

RECURSIVE VolumeOf(_)
VolumeOf(S) ==
    IF S = {} THEN 0
    ELSE LET k == CHOOSE x \in S : TRUE
         IN  GivenRows[k].Volume + VolumeOf(S \ {k})

Buckets == {<<d, b>> \in HourlyDates \X {"A", "B"} : Bucket(d, b) # {}}

\* the output candle of a non-empty bucket
IsCandleOf(row, S) ==
    LET lo == CHOOSE k \in S : \A j \in S : k <= j
        hi == CHOOSE k \in S : \A j \in S : j <= k
    IN  /\ row.datetime = GivenRows[lo].datetime
        /\ row.Open = GivenRows[lo].Open
        /\ row.Close = GivenRows[hi].Close
        /\ \A k \in S : GivenRows[k].High <= row.High
        /\ \E k \in S : GivenRows[k].High = row.High
        /\ \A k \in S : GivenRows[k].Low >= row.Low
        /\ \E k \in S : GivenRows[k].Low = row.Low
        /\ row.Volume = VolumeOf(S)

\* C21: aggregate_to_4h groups the hourly candles by date and, within a
\* date, into bucket A (hour in [9, 13)) and bucket B (hour >= 13); each
\* non-empty bucket yields exactly one output candle (Open of its first
\* candle, highest High, lowest Low, Close of its last candle, sum of the
\* Volumes, timestamp of its first candle), an empty bucket yields nothing,
\* the output is in increasing timestamp order and the input is unmodified.
C21_OneCandlePerBucket ==
    pc = "aggregated" =>
        /\ Len(OutRows) = Cardinality(Buckets)
        /\ \A db \in Buckets :
              Cardinality({k \in DOMAIN OutRows :
                              IsCandleOf(OutRows[k], Bucket(db[1], db[2]))}) = 1
        /\ \A k \in 1..(Len(OutRows) - 1) :
              OutRows[k].datetime < OutRows[k + 1].datetime
        /\ agg_df = agg_given

\* reached: two candles in bucket A and one in bucket B of the same day give
\* two output candles, the first with the sum of two volumes
C21_Witness ==
    /\ pc = "aggregated"
    /\ Len(GivenRows) = 3
    /\ Cardinality(Bucket(1, "A")) = 2
    /\ Cardinality(Bucket(1, "B")) = 1
    /\ Len(OutRows) = 2
    /\ OutRows[1].Volume = GivenRows[1].Volume + GivenRows[2].Volume
    /\ OutRows[1].Close = GivenRows[2].Close
    /\ OutRows[1].High > GivenRows[1].High

\* ------------------------------------------------- what a batch scan returns

\* The batch scans and the service functions built on them.
BatchResultFunctions(fn) ==
    CASE fn = "analyze_all_sectors" ->
             {"analyze_all_sectors", "ScannerService.analyze_sectors"}
      [] fn = "analyze_sector_stocks" ->
             {"analyze_sector_stocks", "ScannerService.analyze_sector_stocks"}
      [] OTHER -> {}

\* The service functions return None instead of a result when the scan gave
\* nothing (analyze_sectors: an empty list; analyze_sector_stocks: no stocks).
HasResult(fn, list) ==
    CASE fn = "ScannerService.analyze_sectors" -> list # <<>>
      [] fn = "ScannerService.analyze_sector_stocks" -> list # <<>>
      [] OTHER -> TRUE

\* The counts a result carries besides its instruments: analyze_all_sectors
\* returns a plain list; the dict of analyze_sector_stocks has sector_name,
\* benchmark, stocks, outperforming, underperforming, neutral and lookback;
\* the dict of ScannerService.analyze_sectors has benchmark, sectors,
\* outperforming, neutral, underperforming, timestamp, timeframe and
\* lookback; ScannerService.analyze_sector_stocks adds total_stocks, the
\* length of the returned list.
ResultCounts(fn, list) ==
    CASE fn = "ScannerService.analyze_sector_stocks" -> [total_stocks |-> Len(list)]
      [] OTHER -> [k \in {} |-> 0]

\* C22: every batch scan result (analyze_all_sectors, analyze_sector_stocks
\* and the ScannerService functions on top of them) contains the instruments
\* that succeeded together with a count of how many were skipped, and that
\* count equals the number requested minus the number returned.
C22_SkippedCountReported ==
    (pc = "scan_done" /\ benchmark_ok) =>
        \A fn \in BatchResultFunctions(scan) :
            HasResult(fn, results) =>
                \E key \in DOMAIN ResultCounts(fn, results) :
                    ResultCounts(fn, results)[key]
                        = Len(feed) - Cardinality(ReturnedInstruments)

\* -------------------------------------------------------- progress callback

\* the calls progress_callback((i + 1) / n, ...) for all n instruments
AllProgress(n) == [k \in 1..n |-> <<k, n>>]

\* C23: with a progress callback and the benchmark available,
\* analyze_all_sectors and analyze_sector_stocks invoke the callback exactly
\* once per instrument, in list order, with the fraction (i+1)/n for the
\* i-th of n, also for the instruments that are then skipped.
C23_ProgressOncePerInstrument ==
    (/\ pc \in {"scan_done", "scan_raised"}
     /\ scan \in {"analyze_all_sectors", "analyze_sector_stocks"}
     /\ benchmark_ok)
        => progress = AllProgress(Len(feed))

\* The same for the calls that return, and at every moment of any call the
\* callback has been invoked for the instruments reached so far.
C23_ProgressOfReturningCall ==
    (scan \in {"analyze_all_sectors", "analyze_sector_stocks"} /\ benchmark_ok)
        => /\ pc = "scan_done" => progress = AllProgress(Len(feed))
           /\ pc \in {"scan_loop", "scan_raised"} =>
                 \E n \in 0..Len(feed) : progress = SubSeq(AllProgress(Len(feed)), 1, n)

\* reached: a returning call in which a skipped instrument is reported
C23_WitnessReturning ==
    /\ pc = "scan_done" /\ benchmark_ok
    /\ scan \in {"analyze_all_sectors", "analyze_sector_stocks"}
    /\ Len(feed) = 3 /\ feed[2].status = "no_data"
    /\ progress = <<<<1, 3>>, <<2, 3>>, <<3, 3>>>>

\* ------------------------------------- GlobalMarketsService.fetch_index_data

MaxHistory == 70   \* longest close history the supplier holds

MarketTimeframes == {"1h", "4h", "daily", "weekly", "monthly", "3m"}

\* TIMEFRAME_CONFIG
TIMEFRAME_CONFIG ==
    [x \in {"1h", "4h", "daily", "weekly", "monthly"} |->
        CASE x = "1h" -> [period |-> "5d", interval |-> "1h", offset |-> 1]
          [] x = "4h" -> [period |-> "5d", interval |-> "1h", offset |-> 4]
          [] x = "daily" -> [period |-> "5d", interval |-> "1d", offset |-> 1]
          [] x = "weekly" -> [period |-> "1mo", interval |-> "1d", offset |-> 5]
          [] x = "monthly" -> [period |-> "3mo", interval |-> "1d", offset |-> 22]]

\* TIMEFRAME_CONFIG.get(timeframe, TIMEFRAME_CONFIG['daily'])
TimeframeConfig(timeframe) ==
    IF timeframe \in DOMAIN TIMEFRAME_CONFIG THEN TIMEFRAME_CONFIG[timeframe]
    ELSE TIMEFRAME_CONFIG["daily"]

\* The rows ticker.history(period, interval) can return: a week has 5
\* trading days, a month 22, a day 7 hourly candles.
PeriodRows(config) ==
    (CASE config.period = "5d" -> 5
       [] config.period = "1mo" -> 22
       [] config.period = "3mo" -> 66)
        * (IF config.interval = "1h" THEN 7 ELSE 1)

\* ticker.history(period=..., interval=...)['Close']: the newest rows
History(series, config) ==
    IF Len(series) <= PeriodRows(config) THEN series
    ELSE SubSeq(series, Len(series) - PeriodRows(config) + 1, Len(series))

\* The closes of a market: prices in whole units.
MarketShapes == {"rise", "fall", "flat"}

MarketSeries(shape, n) ==
    [k \in 1..n |-> CASE shape = "rise" -> 100 + k
                      [] shape = "fall" -> 200 - k
                      [] shape = "flat" -> 100]

Min2(a, b) == IF a < b THEN a ELSE b

\* The dict returned (values in units of 0.01), <<>> for None.  Both
\* branches of  if timeframe in ['1h', '4h']  read the same row once
\* len(hist) >= offset + 1.
fetch_index_data(series, timeframe) ==
    LET tf_config == TimeframeConfig(timeframe)
        hist == History(series, tf_config)
    IN  IF Len(hist) = 0 \/ Len(hist) < tf_config.offset + 1 THEN <<>>
        ELSE LET current_price == hist[Len(hist)]
                 offset == IF timeframe \in {"1h", "4h"} THEN tf_config.offset
                           ELSE Min2(tf_config.offset, Len(hist) - 1)
                 prev_price == hist[Len(hist) - offset]
                 change == current_price - prev_price
                 change_pct == IF prev_price # 0
                                 THEN Carried(Rat(change * 10000, prev_price))
                                 ELSE 0
             IN  <<[price |-> 100 * current_price,
                    change |-> 100 * change,
                    change_pct |-> change_pct,
                    prev_close |-> 100 * prev_price]>>

InitMarket ==
    /\ pc = "fetch_index_data"
    /\ IdleExcept("market")
    /\ mk_timeframe \in MarketTimeframes
    /\ mk_series \in {MarketSeries(shape, n) : shape \in MarketShapes, n \in 0..MaxHistory}
    /\ mk_out = <<>>

FetchIndexData ==
    /\ pc = "fetch_index_data"
    /\ mk_out' = fetch_index_data(mk_series, mk_timeframe)
    /\ pc' = "index_fetched"
    /\ UNCHANGED <<mk_timeframe, mk_series>>
    /\ Frame("market")

SpecMarket == InitMarket /\ [][FetchIndexData]_vars

\* "about three months": so many daily rows before the newest one
ThreeMonthsBack == 55..70

\* C24: for timeframe '3m' fetch_index_data compares the current close with
\* the close about three months earlier, as the documentation of
\* /markets/global states; the '3m' change is not the previous-day
\* comparison that 'daily' returns.
C24_ThreeMonthComparison ==
    (/\ pc = "index_fetched"
     /\ mk_timeframe = "3m"
     /\ Len(mk_series) > 66)
        => /\ mk_out # <<>>
           /\ \E k \in ThreeMonthsBack :
                 /\ k < Len(mk_series)
                 /\ mk_out[1].prev_close = 100 * mk_series[Len(mk_series) - k]
           /\ mk_series[Len(mk_series) - 1] # mk_series[Len(mk_series) - 66]
                 => mk_out # fetch_index_data(mk_series, "daily")

\* the other timeframes compare with the row their offset names
C24_ConfiguredOffsets ==
    (/\ pc = "index_fetched"
     /\ mk_timeframe \in DOMAIN TIMEFRAME_CONFIG
     /\ mk_out # <<>>)
        => mk_out[1].prev_close
             = 100 * mk_series[Len(mk_series) - TIMEFRAME_CONFIG[mk_timeframe].offset]

\* ------------------------------------------- repeated calls on one sequence

RepeatedFunctions == {"analyze_timeframe", "rsi", "macd"}

\* The candle sequence after a call that also removes its newest row.
FrameAfterCall_dropped(d) ==
    IF d = NoFrame THEN d
    ELSE IF Len(d[1]) = 0 THEN d
    ELSE <<SubSeq(d[1], 1, Len(d[1]) - 1)>>

\* The candle sequence after a call.  analyze_timeframe hands df to
\* find_pivot_highs / find_pivot_lows, which read df['High'].values and
\* df['Low'].values; calculate_rsi_tradingview and calculate_macd read
\* df['Close'].values; every array written (delta, gains, losses, avg_gain,
\* avg_loss, rsi, ema, macd_line, signal_line) is created by np.zeros or
\* np.where in the call.  There is no write to df.
FrameAfterCall(d) == d

\* calculate_rsi_tradingview(df, period) followed by classify_rsi
rsi_then_classify(d, p) ==
    LET series == IF d = NoFrame THEN <<>>
                  ELSE calculate_rsi_tradingview(CloseOf(d), p)
    IN  [rsi |-> series, class |-> classify_rsi(CurrentRsi(series))]

\* calculate_macd(df, fast, slow, signal) followed by classify_macd
macd_then_classify(d, fast, slow, signal_period) ==
    LET md == calculate_macd(d, fast, slow, signal_period)
    IN  [macd |-> md, class |-> classify_macd(CarriedLines(md))]

RepeatFrames(min) ==
    {NoFrame} \cup {DataFrame(shape, n) : shape \in Shapes, n \in FetchedLengths(min)}

\* the RSI periods tried: the default and a short one
RepeatedRsiPeriods == {rsi_period, 3}

InitRepeat ==
    /\ pc = "repeat"
    /\ IdleExcept("repeat")
    /\ \/ /\ rp_fn = "analyze_timeframe"
          /\ \E pivot_len \in PivotLens : rp_args = AnalysisArgs(0, 0, 0, pivot_len)
          /\ rp_given \in RepeatFrames(tf_min_candles)
       \/ /\ rp_fn = "rsi"
          /\ \E p \in RepeatedRsiPeriods :
                /\ rp_args = [period |-> p]
                /\ rp_given \in RepeatFrames(p + 1)
       \/ /\ rp_fn = "macd"
          /\ \E p \in MacdPeriods :
                /\ rp_args = AnalysisArgs(p[1], p[2], p[3], 0)
                /\ rp_given \in RepeatFrames(p[2] + p[3])
    /\ rp_df = rp_given
    /\ rp_results = <<>>

\* one call of analyze_timeframe on the sequence object (of two)
CallAnalyzeTimeframe ==
    /\ pc = "repeat" /\ rp_fn = "analyze_timeframe" /\ Len(rp_results) < 2
    /\ rp_results' = Append(rp_results, analyze_timeframe(rp_df, rp_args.pivot_len))
    /\ rp_df' = FrameAfterCall(rp_df)
    /\ UNCHANGED <<pc, rp_fn, rp_args, rp_given>>
    /\ Frame("repeat")

CallRsiThenClassify ==
    /\ pc = "repeat" /\ rp_fn = "rsi" /\ Len(rp_results) < 2
    /\ rp_results' = Append(rp_results, rsi_then_classify(rp_df, rp_args.period))
    /\ rp_df' = FrameAfterCall(rp_df)
    /\ UNCHANGED <<pc, rp_fn, rp_args, rp_given>>
    /\ Frame("repeat")

CallMacdThenClassify ==
    /\ pc = "repeat" /\ rp_fn = "macd" /\ Len(rp_results) < 2
    /\ rp_results' = Append(rp_results,
                            macd_then_classify(rp_df, rp_args.fast, rp_args.slow,
                                               rp_args.signal_period))
    /\ rp_df' = FrameAfterCall(rp_df)
    /\ UNCHANGED <<pc, rp_fn, rp_args, rp_given>>
    /\ Frame("repeat")

NextRepeat == CallAnalyzeTimeframe \/ CallRsiThenClassify \/ CallMacdThenClassify

SpecRepeat == InitRepeat /\ [][NextRepeat]_vars

C25_WitnessRsi ==
    /\ pc = "repeat" /\ rp_fn = "rsi"
    /\ Len(rp_results) = 2
    /\ rp_results[2].class.value # <<>>

\* reached: two calls of the MACD pair with lines
C25_WitnessMacd ==
    /\ pc = "repeat" /\ rp_fn = "macd"
    /\ Len(rp_results) = 2
    /\ rp_results[2].macd.kind = "data"
    /\ rp_results[2].class.signal # "No Data"

\* ------------------------------------------- positions read by the MACD code
\* Positions are counted from 0 as in the source.

MaxEma == 3          \* longest EMA period
MaxCandles == 7      \* longest candle sequence of the MACD

\* calculate_ema: the first position that holds an EMA value (period - 1),
\* <<>> when the data is shorter than the period and the array stays zero
EmaDefinedFrom(length, p) == IF length < p THEN <<>> ELSE <<p - 1>>

\* macd_line[slow-1:] = ema_fast[slow-1:] - ema_slow[slow-1:]
MacdLinePositions(n, slow) == (slow - 1)..(n - 1)

\* signal_line[valid_macd_start:] = ema_signal, computed when
\* len(macd_for_signal) >= signal: the first position with an EMA value
SignalDefinedFrom(n, slow, signal_period) ==
    LET valid_macd_start == slow - 1
        from == EmaDefinedFrom(n - valid_macd_start, signal_period)
    IN  IF from = <<>> THEN <<>> ELSE <<valid_macd_start + from[1]>>

\* macd_line[-1], macd_line[-2], signal_line[-1], signal_line[-2]
ClassifyPositions(n) == {n - 1, n - 2}

NoTrace == [kind |-> "none"]

InitReads ==
    /\ pc = "calculate_macd"
    /\ IdleExcept("reads")
    /\ mr_n \in 0..MaxCandles
    /\ mr_periods \in [fast : 1..MaxEma, slow : 1..MaxEma, signal : 1..MaxEma]
    /\ mr_trace = NoTrace

\* calculate_macd: None below slow + signal candles
CalculateMacdPositions ==
    /\ pc = "calculate_macd"
    /\ IF mr_n < mr_periods.slow + mr_periods.signal
         THEN /\ pc' = "macd_none"
              /\ UNCHANGED mr_trace
         ELSE /\ pc' = "classify_macd_data"
              /\ mr_trace' =
                   [kind |-> "macd",
                    ema_fast_from |-> EmaDefinedFrom(mr_n, mr_periods.fast),
                    ema_slow_from |-> EmaDefinedFrom(mr_n, mr_periods.slow),
                    macd_line |-> MacdLinePositions(mr_n, mr_periods.slow),
                    signal_from |-> SignalDefinedFrom(mr_n, mr_periods.slow,
                                                      mr_periods.signal),
                    classified |-> {}]
    /\ UNCHANGED <<mr_n, mr_periods>>
    /\ Frame("reads")

\* classify_macd on the lines of calculate_macd (n >= 2 holds there)
ClassifyMacdPositions ==
    /\ pc = "classify_macd_data"
    /\ mr_trace' = [mr_trace EXCEPT !.classified = ClassifyPositions(mr_n)]
    /\ pc' = "macd_positions_read"
    /\ UNCHANGED <<mr_n, mr_periods>>
    /\ Frame("reads")

NextReads == CalculateMacdPositions \/ ClassifyMacdPositions

SpecReads == InitReads /\ [][NextReads]_vars

\* the EMA holds a value at position k
DefinedAt(from, k) == from # <<>> /\ k >= from[1]

\* the three parts of the claim for the trace of one call
OnlyDefinedPositions(t, p) ==
    /\ \A k \in t.macd_line :
          /\ k >= p.slow - 1
          /\ DefinedAt(t.ema_fast_from, k)
          /\ DefinedAt(t.ema_slow_from, k)
    /\ t.signal_from = <<p.slow + p.signal - 2>>
    /\ \A k \in t.classified : k >= p.slow + p.signal - 2

\* C26: for n >= slow + signal candles calculate_macd and classify_macd never
\* use an EMA value at a position before that EMA's period - 1: the MACD line
\* is formed only from position slow - 1 on, where both the fast and the slow
\* EMA are defined, the signal line is defined from position slow + signal - 2
\* on, and the two positions classify_macd reads (n - 1 and n - 2) are both
\* >= slow + signal - 2.
C26_OnlyDefinedEmaValuesRead ==
    pc = "macd_positions_read" => OnlyDefinedPositions(mr_trace, mr_periods)

\* the same for a fast period that is not above the slow period
C26_OrderedPeriods ==
    (pc = "macd_positions_read" /\ mr_periods.fast <= mr_periods.slow)
        => OnlyDefinedPositions(mr_trace, mr_periods)

\* reached: ordered periods, the shortest admissible sequence
C26_WitnessOrdered ==
    /\ pc = "macd_positions_read"
    /\ mr_periods.fast < mr_periods.slow
    /\ mr_n = mr_periods.slow + mr_periods.signal
    /\ mr_trace.classified = {mr_n - 1, mr_n - 2}

\* ------------------------------------------ analyze_stock on supplied candles

StockBars == 36    \* candles of a timeframe with enough history

FeedKinds == {"none", "short", "rise", "swing", "slide"}

StockValue(kind, k) ==
    CASE kind = "rise" -> ShapeValue("rise", k)
      [] kind = "slide" -> 30000 - ShapeValue("swing", k)
      [] OTHER -> ShapeValue("swing", k)

\* Candles of fetch_data: None for an empty answer or an error.  Hourly
\* candles (for '4h') carry their timestamps, one candle at 9 and one at 13
\* o'clock of each day.
SuppliedFrame(kind, tf) ==
    IF kind = "none" THEN NoFrame
    ELSE LET n == IF kind = "short" THEN tf_min_candles - 1 ELSE StockBars
         IN  <<[k \in 1..n |->
                  IF tf = "4h"
                    THEN HourlyCandle(((k + 1) \div 2) * 24 + (IF k % 2 = 1 THEN 9 ELSE 13),
                                      StockValue(kind, k), StockValue(kind, k) + 30,
                                      StockValue(kind, k) - 30, StockValue(kind, k), 1)
                    ELSE Bar(StockValue(kind, k))]>>

\* tf_config.get('pivot_len', 5) of TIMEFRAMES
PivotLenOf(tf) == IF tf \in {"monthly", "weekly"} THEN 3 ELSE 5

\* the loop over TIMEFRAMES: fetch, aggregate the '4h' candles, analyse
StockTimeframes(frames) ==
    [tf \in TIMEFRAMES |->
        LET d == IF tf = "4h" /\ frames[tf] # NoFrame
                   THEN aggregate_to_4h(frames[tf]) ELSE frames[tf]
        IN  analyze_timeframe(d, PivotLenOf(tf))]

analyze_stock(frames) ==
    LET timeframes == StockTimeframes(frames)
        groups == AggregateGroups([tf \in TIMEFRAMES |-> timeframes[tf].trend])
    IN  [timeframes |-> timeframes,
         mtf_groups |-> groups,
         opportunity |-> determine_opportunity(groups)]

InitStockFeed ==
    /\ pc = "analyze_stock_feed"
    /\ IdleExcept("stockfeed")
    /\ \E kinds \in [TIMEFRAMES -> FeedKinds] :
          sf_feed = [tf \in TIMEFRAMES |-> SuppliedFrame(kinds[tf], tf)]
    /\ sf_result = None

AnalyzeStockFeed ==
    /\ pc = "analyze_stock_feed"
    /\ sf_result' = analyze_stock(sf_feed)
    /\ pc' = "stock_feed_done"
    /\ UNCHANGED sf_feed
    /\ Frame("stockfeed")

SpecStockFeed == InitStockFeed /\ [][AnalyzeStockFeed]_vars

BuySellTypes ==
    {"STRONG BUY", "STRONG SELL / AVOID", "PULLBACK BUY", "BOUNCE SELL",
     "INTRADAY BUY", "INTRADAY SELL"}

\* C27: when the supplier returns no data for every timeframe, analyze_stock
\* raises nothing and returns every timeframe as 'No Data' with confidence 0,
\* every one of the four groups NEUTRAL and the opportunity 'WAIT / NO
\* TRADE'; no buy or sell signal is returned when no timeframe has a bullish
\* or bearish trend.
C27_NoDataGivesWait ==
    pc = "stock_feed_done" =>
        /\ (\A tf \in TIMEFRAMES : sf_feed[tf] = NoFrame) =>
              /\ \A tf \in TIMEFRAMES :
                    /\ sf_result.timeframes[tf].trend = "No Data"
                    /\ sf_result.timeframes[tf].confidence = 0
              /\ \A g \in GroupKeys : sf_result.mtf_groups[g].trend = "NEUTRAL"
              /\ sf_result.opportunity.type = "WAIT / NO TRADE"
        /\ (\A tf \in TIMEFRAMES :
               sf_result.timeframes[tf].trend \notin (BullishTrends \cup BearishTrends))
              => sf_result.opportunity.type \notin BuySellTypes

\* reached: no data for any timeframe
C27_Witness ==
    /\ pc = "stock_feed_done"
    /\ \A tf \in TIMEFRAMES : sf_feed[tf] = NoFrame
    /\ sf_result.opportunity.type = "WAIT / NO TRADE"

\* reached: candles without a trend in some timeframes, none bullish or
\* bearish
C27_WitnessNoTrend ==
    /\ pc = "stock_feed_done"
    /\ sf_feed["daily"] # NoFrame
    /\ sf_result.timeframes["daily"].trend = "Insufficient Data"
    /\ \A tf \in TIMEFRAMES :
          sf_result.timeframes[tf].trend \notin (BullishTrends \cup BearishTrends)

\* reached: bullish and bearish timeframes and a signal
C27_WitnessSignal ==
    /\ pc = "stock_feed_done"
    /\ sf_result.timeframes["4h"].trend \in BullishTrends
    /\ sf_result.timeframes["weekly"].trend \in BearishTrends
    /\ sf_result.opportunity.type \in BuySellTypes

\* ------------------------------------------------ NSEFetcher.get_all_indices

MaxElapsed == 62   \* seconds the clock runs after construction

cache_ttl == 60

\* What /api/allIndices can answer: 200 with a listing (possibly empty), a
\* status other than 200, 200 with a body that is not the expected JSON, or
\* an exception of the request.
Listings == {<<>>, <<"NIFTY 50">>, <<"NIFTY 50", "NIFTY BANK">>}

Responses ==
    [kind : {"ok"}, data : Listings]
        \cup [kind : {"non200", "unparsable", "exception"}, data : {<<>>}]

\* the stored listing taken as fresh up to and including the 60th second
CacheFresh_inclusive(current_time, stored, stored_time) ==
    /\ stored # <<>>
    /\ stored[1] # <<>>
    /\ current_time - stored_time <= cache_ttl

\* self._cache.get("allIndices") and (current_time - self._cache_time < self._cache_ttl)
CacheFresh(current_time, stored, stored_time) ==
    /\ stored # <<>>
    /\ stored[1] # <<>>
    /\ current_time - stored_time < cache_ttl

Call(at, served, outcome, returned, before, before_time) ==
    [at |-> at, served |-> served, outcome |-> outcome, returned |-> returned,
     before |-> before, before_time |-> before_time]

\* After __init__: nothing stored, _cache_time 0; time.time() is far above 0.
InitNse ==
    /\ pc = "nse_fetcher"
    /\ IdleExcept("nse")
    /\ ns_now = cache_ttl + 1
    /\ ns_cache = <<>>
    /\ ns_cache_time = 0
    /\ ns_session_initialized = FALSE
    /\ ns_last = Call(0, "none", "none", <<>>, <<>>, 0)

\* time passes between calls
Tick ==
    /\ pc = "nse_fetcher"
    /\ \E d \in {1, cache_ttl - 1} :
          /\ ns_now + d <= cache_ttl + 1 + MaxElapsed
          /\ ns_now' = ns_now + d
    /\ UNCHANGED <<pc, ns_cache, ns_cache_time, ns_session_initialized, ns_last>>
    /\ Frame("nse")

\* get_all_indices answered from the cache
GetAllIndicesCached ==
    /\ pc = "nse_fetcher"
    /\ CacheFresh(ns_now, ns_cache, ns_cache_time)
    /\ ns_last' = Call(ns_now, "cache", "none", ns_cache[1], ns_cache, ns_cache_time)
    /\ UNCHANGED <<pc, ns_now, ns_cache, ns_cache_time, ns_session_initialized>>
    /\ Frame("nse")

\* get_all_indices with a request: _get_session (the session is set up anew
\* when it is not initialized or older than five minutes, which may fail),
\* then the request and the handling of its answer
GetAllIndicesFetched ==
    /\ pc = "nse_fetcher"
    /\ ~CacheFresh(ns_now, ns_cache, ns_cache_time)
    /\ \E session_ok \in BOOLEAN, resp \in Responses :
          /\ IF resp.kind = "ok"
               THEN /\ ns_cache' = <<resp.data>>
                    /\ ns_cache_time' = ns_now
                    /\ ns_session_initialized' = session_ok
               ELSE /\ UNCHANGED <<ns_cache, ns_cache_time>>
                    /\ ns_session_initialized' =
                         IF resp.kind = "non200" THEN session_ok ELSE FALSE
          /\ ns_last' = Call(ns_now, "network", resp.kind, resp.data, ns_cache,
                             ns_cache_time)
    /\ UNCHANGED <<pc, ns_now>>
    /\ Frame("nse")

NextNse == Tick \/ GetAllIndicesCached \/ GetAllIndicesFetched

SpecNse == InitNse /\ [][NextNse]_vars

\* C28: a call of get_all_indices returns the stored listing without a
\* request only if a non-empty listing was stored less than 60 seconds
\* before; a failed, non-200 or unparsable fetch returns an empty list and
\* leaves the stored listing and its timestamp unchanged, so that no listing
\* older than 60 seconds is ever returned; an empty listing is never served
\* from the cache.
C28_CacheWithinSixtySeconds ==
    pc = "nse_fetcher" =>
        /\ ns_last.served = "cache" =>
              /\ ns_last.before # <<>>
              /\ ns_last.returned = ns_last.before[1]
              /\ ns_last.returned # <<>>
              /\ ns_last.at - ns_last.before_time < 60
              /\ ns_last.at - ns_last.before_time >= 0
        /\ (ns_last.served = "network" /\ ns_last.outcome # "ok") =>
              /\ ns_last.returned = <<>>
              /\ ns_cache = ns_last.before
              /\ ns_cache_time = ns_last.before_time
        /\ (ns_last.served = "network" /\ ns_last.outcome = "ok") =>
              /\ ns_cache = <<ns_last.returned>>
              /\ ns_cache_time = ns_last.at

\* reached: served from the cache in the 59th second after storing
C28_Witness ==
    /\ pc = "nse_fetcher"
    /\ ns_last.served = "cache"
    /\ ns_last.at - ns_last.before_time = 59
    /\ ns_last.returned = <<"NIFTY 50", "NIFTY BANK">>

\* reached: a failed fetch 60 seconds after storing returns the empty list
\* and keeps the stored listing
C28_WitnessExpired ==
    /\ pc = "nse_fetcher"
    /\ ns_last.served = "network" /\ ns_last.outcome = "non200"
    /\ ns_last.at - ns_last.before_time = 60
    /\ ns_last.before = <<<<"NIFTY 50">>>>
    /\ ns_cache = <<<<"NIFTY 50">>>>

\* reached: an empty listing is stored and the next call asks again
C28_WitnessEmptyStored ==
    /\ pc = "nse_fetcher"
    /\ ns_last.served = "network"
    /\ ns_last.before = <<<<>>>>
    /\ ns_last.at - ns_last.before_time = 1

\* --------------------------------------- analyze_timeframe on turning points

MaxTurns == 5      \* most turning points of a candle sequence

\* A candle sequence with a candle of its own level at every fourth position
\* and the middle level everywhere else: a level above the middle can be a
\* pivot high, one below a pivot low.
TurnLevels == {2400, 2700, 3000, 3300, 3600}

TurnFrame(levels) ==
    <<[k \in 1..(4 * Len(levels) + 4) |->
         Bar(IF k % 4 = 0 /\ k \div 4 <= Len(levels) THEN levels[k \div 4] ELSE 3000)]>>

InitTimeframe ==
    /\ pc = "analyze_timeframe"
    /\ IdleExcept("analysis")
    /\ an_result = None
    /\ \E pivot_len \in PivotLens : an_args = AnalysisArgs(0, 0, 0, pivot_len)
    /\ \E d \in {NoFrame} \cup
                {TurnFrame(levels) :
                    levels \in UNION {[1..m -> TurnLevels] : m \in 3..MaxTurns}} :
          an_feed = [df |-> d]

SpecTimeframe == InitTimeframe /\ [][AnalyzeTimeframe]_vars

\* how many of the four rules of determine_trend match the two last labels
RulesMatching(hl, ll) ==
    Cardinality({r \in {<<"HH", "HL">>, <<"LH", "LL">>, <<"HH", "LL">>, <<"LH", "HL">>} :
                    r[1] = hl /\ r[2] = ll})

C29_WitnessUp == pc = "timeframe_done" /\ an_result.trend = "HH-HL"

C29_WitnessDown == pc = "timeframe_done" /\ an_result.trend = "LL-LH"

C29_WitnessTransitionUp == pc = "timeframe_done" /\ an_result.trend = "LL->HL"

C29_WitnessInsufficient ==
    /\ pc = "timeframe_done"
    /\ an_result.trend = "Insufficient Data"
    /\ Len(an_result.pivots.highs) = 1

\* --------------------------------------- the zero line in classify_macd

\* the position the 'signal' label names, "" when it names none
ZoneNamed(signal) ==
    CASE signal \in {"PCO Above Zero", "NCO Above Zero", "Up Tick Above Zero",
                     "Down Tick Above Zero"} -> "Above Zero"
      [] signal \in {"PCO Below Zero", "NCO Below Zero", "Up Tick Below Zero",
                     "Down Tick Below Zero"} -> "Below Zero"
      [] signal \in {"PCO Near Zero", "NCO Near Zero"} -> "Near Zero"
      [] OTHER -> ""

\* C30: in every classify_macd result that carries a zone, the zero-line
\* position named in the 'signal' label agrees with the 'zone' field and with
\* the current MACD value: Above Zero means zone 'Above Zero' and MACD >
\* zero_threshold, Below Zero means zone 'Below Zero' and MACD <
\* -zero_threshold, Near Zero means zone 'Near Zero' and -zero_threshold <=
\* MACD <= zero_threshold.
C30_LabelAgreesWithZone ==
    (pc = "macd_classified" /\ macd_class.zone # "absent") =>
        LET named == ZoneNamed(macd_class.signal)
            v == macd_class.macd_value[1]
        IN  /\ named = "Above Zero" => (macd_class.zone = "Above Zero" /\ v > 200)
            /\ named = "Below Zero" => (macd_class.zone = "Below Zero" /\ v < -200)
            /\ named = "Near Zero" =>
                  (macd_class.zone = "Near Zero" /\ -200 <= v /\ v <= 200)

\* the same without the results of a tick near the zero line
C30_AgreesExceptTickNearZero ==
    (/\ pc = "macd_classified" /\ macd_class.zone # "absent"
     /\ ~(macd_class.crossover = None /\ macd_class.zone = "Near Zero"))
        => LET named == ZoneNamed(macd_class.signal)
               v == macd_class.macd_value[1]
           IN  /\ named = "Above Zero" => (macd_class.zone = "Above Zero" /\ v > 200)
               /\ named = "Below Zero" => (macd_class.zone = "Below Zero" /\ v < -200)
               /\ named = "Near Zero" =>
                     (macd_class.zone = "Near Zero" /\ -200 <= v /\ v <= 200)

====
